---------------------------- MODULE Spec2Model ----------------------------
(***************************************************************************)
(* A model of the BLAKE3 Merkle tree crate: the compression function, the  *)
(* chunk state, the streaming hasher, the chunk-output producer and the    *)
(* balanced and unbalanced array trees of src/src/binary_merkle_tree.rs.   *)
(*                                                                         *)
(* Representation.  TLC's integers are 32-bit signed, so a u32 is held as  *)
(* the pair <<high 16 bits, low 16 bits>>; additions wrap modulo 2^32 and  *)
(* rotations are circular, as in the source.  A Rust array or Vec indexed  *)
(* from 0 is a TLA+ sequence whose element i sits at position i + 1.  A    *)
(* usize difference that wraps below zero is held as the negative number   *)
(* d standing for 2^64 + d.                                                *)
(*                                                                         *)
(* Specifications.  Spec: a balanced tree kept up to date with an input    *)
(* that is mutated.  SpecU: the unbalanced tree, mutated and extended, in  *)
(* both overflow-check profiles.  SpecH: the streaming hasher fed slices.  *)
(* SpecK: the hasher fed chunks, and the chunk producer.  SpecR: both      *)
(* trees built from any number of chunks, and the operations that read     *)
(* them.  SpecB: both trees kept up to date with one mutated input.        *)
(***************************************************************************)
EXTENDS Integers, Sequences, FiniteSets, TLC

OUT_LEN == 32
BLOCK_LEN == 64
CHUNK_LEN == 1024

CHUNK_START == 1
CHUNK_END == 2
PARENT == 4
ROOT == 8

\* Size of the subtree chaining value stack of Blake3Hasher.
CV_STACK_SIZE == 54

(***************************************************************************)
(* 32-bit words                                                            *)
(***************************************************************************)

RECURSIVE XorBits(_, _, _)
\* Bitwise exclusive or of the n low bits of a and b.
XorBits(a, b, n) ==
    IF n = 0 THEN 0
    ELSE ((a + b) % 2) + 2 * XorBits(a \div 2, b \div 2, n - 1)

\* The sequence of the n elements of f, each evaluated once.
Array(f, n) == SubSeq(f, 1, n)

\* The exclusive or of bytes a and b at XorTable[a + 1][b + 1], evaluated once.
XorTable ==
    Array([a \in 1..256 |-> Array([b \in 1..256 |-> XorBits(a - 1, b - 1, 8)], 256)], 256)

\* u8 ^ u8
Xor8(a, b) == XorTable[a + 1][b + 1]

Xor16(x, y) == Xor8(x \div 256, y \div 256) * 256 + Xor8(x % 256, y % 256)

\* u32 ^ u32
xor(a, b) == <<Xor16(a[1], b[1]), Xor16(a[2], b[2])>>

\* An addition that stops at the largest u32.
saturating_add(a, b) ==
    LET lo == a[2] + b[2]
        hi == a[1] + b[1] + (lo \div 65536)
    IN  IF hi >= 65536 THEN <<65535, 65535>> ELSE <<hi, lo % 65536>>

\* u32::wrapping_add
wrapping_add(a, b) ==
    LET lo == a[2] + b[2]
    IN  <<(a[1] + b[1] + (lo \div 65536)) % 65536, lo % 65536>>

RECURSIVE Pow2(_)
Pow2(n) == IF n = 0 THEN 1 ELSE 2 * Pow2(n - 1)

\* u32::rotate_right, 0 <= n < 32
rotate_right(w, n) ==
    LET v == IF n >= 16 THEN <<w[2], w[1]>> ELSE w
        P == Pow2(n % 16)
        Q == 65536 \div P
    IN  <<(v[1] \div P) + (v[2] % P) * Q, (v[2] \div P) + (v[1] % P) * Q>>

\* A small non-negative integer as a u32 (an `as u32` cast).
U32(n) == <<(n \div 65536) % 65536, n % 65536>>

\* The high half of a u64 counter, (counter >> 32) as u32.
CounterHigh(counter) == U32((counter \div 65536) \div 65536)

\* flags | bit, for flag sets below 2^8.
BitOr(a, b) == a + b - ((a + b - Xor8(a, b)) \div 2)

\* u32::from_le_bytes
from_le_bytes(b) == <<b[3] + 256 * b[4], b[1] + 256 * b[2]>>

\* u32::to_le_bytes
to_le_bytes(w) == <<w[2] % 256, w[2] \div 256, w[1] % 256, w[1] \div 256>>

IV ==
    << <<27145, 58983>>, <<47975, 44677>>, <<15470, 62322>>, <<42319, 62778>>,
       <<20750, 21119>>, <<39685, 26764>>, <<8067, 55723>>, <<23520, 52505>> >>

(***************************************************************************)
(* The compression function                                                *)
(***************************************************************************)

\* state[x] = state[x].wrapping_add(state[y]).wrapping_add(m)
AddMessageInto(state, x, y, m) ==
    [state EXCEPT ![x + 1] = wrapping_add(wrapping_add(state[x + 1], state[y + 1]), m)]

\* state[x] = state[x].wrapping_add(state[y])
AddInto(state, x, y) ==
    [state EXCEPT ![x + 1] = wrapping_add(state[x + 1], state[y + 1])]

\* state[x] = (state[x] ^ state[y]).rotate_right(n)
XorRotateInto(state, x, y, n) ==
    [state EXCEPT ![x + 1] = rotate_right(xor(state[x + 1], state[y + 1]), n)]

\* The mixing function: its eight assignments, in order.  The state is
\* evaluated before the assignments start.
g(state, a, b, c, d, mx, my) ==
    IF state = <<>> THEN state ELSE
    XorRotateInto(
        AddInto(
            XorRotateInto(
                AddMessageInto(
                    XorRotateInto(
                        AddInto(
                            XorRotateInto(
                                AddMessageInto(state, a, b, mx),
                                d, a, 16),
                            c, d),
                        b, c, 12),
                    a, b, my),
                d, a, 8),
            c, d),
        b, c, 7)

\* Mix the columns.
MixColumns(state, m) ==
    g(g(g(g(state, 0, 4, 8, 12, m[1], m[2]),
          1, 5, 9, 13, m[3], m[4]),
        2, 6, 10, 14, m[5], m[6]),
      3, 7, 11, 15, m[7], m[8])

\* Mix the diagonals.
MixDiagonals(state, m) ==
    g(g(g(g(state, 0, 5, 10, 15, m[9], m[10]),
          1, 6, 11, 12, m[11], m[12]),
        2, 7, 8, 13, m[13], m[14]),
      3, 4, 9, 14, m[15], m[16])

round(state, m) == MixDiagonals(MixColumns(state, m), m)

MSG_PERMUTATION == <<2, 6, 3, 10, 7, 0, 4, 13, 1, 11, 12, 5, 9, 14, 15, 8>>

permute(m) == Array([i \in 1..16 |-> m[MSG_PERMUTATION[i] + 1]], 16)

RECURSIVE Rounds(_, _, _)
\* The rounds of compress from round n on: round 7 is the last, and the
\* block is permuted between two rounds.  The state is evaluated before its
\* round starts.
Rounds(state, block, n) ==
    IF n > 7 \/ state = <<>> THEN state
    ELSE Rounds(round(state, block),
                IF n < 7 THEN permute(block) ELSE block,
                n + 1)

\* The last loop of compress: the two halves of the state are combined with
\* each other and with the input chaining value.
FeedForward(state, chaining_value) ==
    Array([i \in 1..16 |-> IF i <= 8 THEN xor(state[i], state[i + 8])
                                    ELSE xor(state[i], chaining_value[i - 8])], 16)

compress(chaining_value, block_words, counter, block_len, flags) ==
    FeedForward(
        Rounds(chaining_value \o SubSeq(IV, 1, 4)
                   \o <<U32(counter), CounterHigh(counter), U32(block_len), U32(flags)>>,
               block_words, 1),
        chaining_value)

first_8_words(compression_output) == SubSeq(compression_output, 1, 8)

words_from_little_endian_bytes(bytes) ==
    Array([i \in 1..(Len(bytes) \div 4) |-> from_le_bytes(SubSeq(bytes, 4 * i - 3, 4 * i))],
          Len(bytes) \div 4)

(***************************************************************************)
(* Output                                                                  *)
(***************************************************************************)

\* The compression of Output::chaining_value.
compress_chaining_value(self) ==
    first_8_words(compress(self.input_chaining_value, self.block_words,
                           self.counter, self.block_len, self.flags))

\* An output block whose counter starts from the Output's own counter field.
root_output_block_from_own_counter(self, j) ==
    LET words == compress(self.input_chaining_value, self.block_words,
                          self.counter + j, self.block_len, BitOr(self.flags, ROOT))
    IN  Array([i \in 1..(2 * OUT_LEN) |->
                  to_le_bytes(words[((i - 1) \div 4) + 1])[((i - 1) % 4) + 1]],
              2 * OUT_LEN)

\* The 64 bytes of output block j: every word of the ROOT compression with
\* the output block counter j, little-endian.
RootOutputBlock(self, j) ==
    LET words == compress(self.input_chaining_value, self.block_words,
                          j, self.block_len, BitOr(self.flags, ROOT))
    IN  Array([i \in 1..(2 * OUT_LEN) |->
                  to_le_bytes(words[((i - 1) \div 4) + 1])[((i - 1) % 4) + 1]],
              2 * OUT_LEN)

\* Output::root_output_bytes on an out_slice of out_len bytes: the bytes
\* written, one output block per 2 * OUT_LEN bytes of the slice.
root_output_bytes(self, out_len) ==
    LET n_blocks == (out_len + 2 * OUT_LEN - 1) \div (2 * OUT_LEN)
        blocks == Array([j \in 1..n_blocks |-> RootOutputBlock(self, j - 1)], n_blocks)
    IN  Array([i \in 1..out_len |->
                  blocks[((i - 1) \div (2 * OUT_LEN)) + 1][((i - 1) % (2 * OUT_LEN)) + 1]],
              out_len)

\* A parent Output that carries ROOT as well as PARENT.
root_parent_output(left_child_cv, right_child_cv, key_words, flags) ==
    [input_chaining_value |-> key_words,
     block_words |-> left_child_cv \o right_child_cv,
     counter |-> 0,
     block_len |-> BLOCK_LEN,
     flags |-> BitOr(PARENT + ROOT, flags)]

parent_output(left_child_cv, right_child_cv, key_words, flags) ==
    [input_chaining_value |-> key_words,
     block_words |-> left_child_cv \o right_child_cv,
     counter |-> 0,
     block_len |-> BLOCK_LEN,
     flags |-> BitOr(PARENT, flags)]

(***************************************************************************)
(* ChunkState                                                              *)
(***************************************************************************)

\* [0; BLOCK_LEN]
ZeroBlock == Array([i \in 1..BLOCK_LEN |-> 0], BLOCK_LEN)

ChunkState_new(key_words, chunk_counter, flags) ==
    [chaining_value |-> key_words,
     chunk_counter |-> chunk_counter,
     block |-> ZeroBlock,
     block_len |-> 0,
     blocks_compressed |-> 0,
     flags |-> flags]

ChunkState_len(self) == BLOCK_LEN * self.blocks_compressed + self.block_len

\* CHUNK_START on every block of the chunk.
start_flag_on_every_block(self) == CHUNK_START

start_flag(self) == IF self.blocks_compressed = 0 THEN CHUNK_START ELSE 0

min(a, b) == IF a <= b THEN a ELSE b

\* A full block buffer compressed, its bytes left in place.
compress_full_block_keeping_bytes(self) ==
    IF self.block_len = BLOCK_LEN
    THEN [self EXCEPT
            !.chaining_value =
                first_8_words(compress(self.chaining_value,
                                       words_from_little_endian_bytes(self.block),
                                       self.chunk_counter, BLOCK_LEN,
                                       BitOr(self.flags, start_flag(self)))),
            !.blocks_compressed = self.blocks_compressed + 1,
            !.block_len = 0]
    ELSE self

\* The first step of the loop body of ChunkState::update: a full block
\* buffer is compressed and cleared (more input is coming).
CompressFullBlock(self) ==
    IF self.block_len = BLOCK_LEN
    THEN [self EXCEPT
            !.chaining_value =
                first_8_words(compress(self.chaining_value,
                                       words_from_little_endian_bytes(self.block),
                                       self.chunk_counter, BLOCK_LEN,
                                       BitOr(self.flags, start_flag(self)))),
            !.blocks_compressed = self.blocks_compressed + 1,
            !.block = ZeroBlock,
            !.block_len = 0]
    ELSE self

RECURSIVE ChunkState_update_loop(_, _)
RECURSIVE CopyIntoBlock(_, _)
\* The rest of the loop body of ChunkState::update: input bytes are copied
\* into the block buffer, and the loop goes on with the bytes left.
CopyIntoBlock(self, input) ==
    LET want == BLOCK_LEN - self.block_len
        take == min(want, Len(input))
    IN  ChunkState_update_loop(
            [self EXCEPT
                !.block = Array([i \in 1..BLOCK_LEN |->
                                    IF i > self.block_len /\ i <= self.block_len + take
                                    THEN input[i - self.block_len]
                                    ELSE self.block[i]], BLOCK_LEN),
                !.block_len = self.block_len + take],
            SubSeq(input, take + 1, Len(input)))

\* The while loop of ChunkState::update.
ChunkState_update_loop(self, input) ==
    IF input = <<>> THEN self
    ELSE CopyIntoBlock(CompressFullBlock(self), input)

(***************************************************************************)
(* The inputs of the specifications                                        *)
(***************************************************************************)

\* The largest number of whole chunks of an input.
MaxChunks == 4

\* The byte at position p of an unmodified input.
BaseByte(p) == p % 251

\* The offset, inside chunk c, of the byte that the mutations of chunk c flip.
MutOffset(c) == (c * 341) % CHUNK_LEN

\* original_byte ^ 0xFF
FlipByte(b) == Xor8(b, 255)

\* The CHUNK_LEN bytes of chunk c at ChunkContents[c + 1][v]: unmodified
\* for v = 1, with the mutable byte of the chunk flipped for v = 2.
ChunkContents ==
    Array([c \in 1..MaxChunks + 1 |->
              Array([v \in 1..2 |->
                        Array([j \in 1..CHUNK_LEN |->
                                  IF v = 2 /\ j - 1 = MutOffset(c - 1)
                                  THEN FlipByte(BaseByte((c - 1) * CHUNK_LEN + j - 1))
                                  ELSE BaseByte((c - 1) * CHUNK_LEN + j - 1)],
                              CHUNK_LEN)], 2)],
          MaxChunks + 1)

\* ChunkState::update of a fresh unkeyed chunk state on each of the chunk
\* contents above, evaluated once by the loop of the source.
ChunkStateTable ==
    Array([c \in 1..MaxChunks + 1 |->
              Array([v \in 1..2 |->
                        ChunkState_update_loop(ChunkState_new(IV, c - 1, 0),
                                               ChunkContents[c][v])], 2)],
          MaxChunks + 1)

\* An update that fills the block buffer from its start at every call.
update_from_block_start(self, input) ==
    ChunkState_update_loop([self EXCEPT !.block_len = 0], input)

\* ChunkState::update.  The loop's result is looked up when it has been
\* tabulated and computed otherwise.
ChunkState_update(self, input) ==
    IF /\ self.chunk_counter <= MaxChunks
       /\ self = ChunkState_new(IV, self.chunk_counter, 0)
       /\ \E v \in 1..2 : input = ChunkContents[self.chunk_counter + 1][v]
    THEN ChunkStateTable[self.chunk_counter + 1]
            [CHOOSE v \in 1..2 : input = ChunkContents[self.chunk_counter + 1][v]]
    ELSE ChunkState_update_loop(self, input)

\* An Output whose counter is that of the first chunk.
output_of_first_chunk(self) ==
    [input_chaining_value |-> self.chaining_value,
     block_words |-> words_from_little_endian_bytes(self.block),
     counter |-> 0,
     block_len |-> self.block_len,
     flags |-> BitOr(BitOr(self.flags, start_flag(self)), CHUNK_END)]

\* ChunkState::output
ChunkState_output(self) ==
    [input_chaining_value |-> self.chaining_value,
     block_words |-> words_from_little_endian_bytes(self.block),
     counter |-> self.chunk_counter,
     block_len |-> self.block_len,
     flags |-> BitOr(BitOr(self.flags, start_flag(self)), CHUNK_END)]

\* An Output paired with its Output::chaining_value.
WithChainingValue(output) == <<output, compress_chaining_value(output)>>

\* The Outputs of the tabulated chunks with their chaining values: chunk c,
\* variant v at 2 * c + v.
TabulatedLeaves ==
    Array([i \in 1..2 * (MaxChunks + 1) |->
              WithChainingValue(
                  ChunkState_output(
                      ChunkStateTable[((i - 1) \div 2) + 1][((i - 1) % 2) + 1]))],
          2 * (MaxChunks + 1))

\* The parent of entries l and r of a table, with its chaining value.
ParentOfTabulated(table, l, r) ==
    WithChainingValue(parent_output(table[l][2], table[r][2], IV, 0))

\* The parents of the sibling pairs of tabulated leaves, chunks 2k and
\* 2k + 1 in each of their variants, with their chaining values.
TabulatedParents ==
    Array([i \in 1..4 * ((MaxChunks + 1) \div 2) |->
              ParentOfTabulated(TabulatedLeaves,
                                4 * ((i - 1) \div 4) + (((i - 1) % 4) \div 2) + 1,
                                4 * ((i - 1) \div 4) + 2 + ((i - 1) % 2) + 1)],
          4 * ((MaxChunks + 1) \div 2))

TabulatedChainingValues == TabulatedLeaves \o TabulatedParents

\* The chaining value of an Output: looked up when the table has it and
\* computed otherwise.
LookUpOrCompress(table, self) ==
    IF \E i \in DOMAIN table : table[i][1] = self
    THEN table[CHOOSE i \in DOMAIN table : table[i][1] = self][2]
    ELSE compress_chaining_value(self)

\* Output::chaining_value
chaining_value(self) == LookUpOrCompress(TabulatedChainingValues, self)

parent_cv(left_child_cv, right_child_cv, key_words, flags) ==
    chaining_value(parent_output(left_child_cv, right_child_cv, key_words, flags))

(***************************************************************************)
(* Blake3Hasher                                                            *)
(***************************************************************************)

Blake3Hasher_new_internal(key_words, flags) ==
    [chunk_state |-> ChunkState_new(key_words, 0, flags),
     key_words |-> key_words,
     cv_stack |-> Array([i \in 1..CV_STACK_SIZE |-> Array([j \in 1..8 |-> <<0, 0>>], 8)],
                        CV_STACK_SIZE),
     cv_stack_len |-> 0,
     flags |-> flags]

Blake3Hasher_new == Blake3Hasher_new_internal(IV, 0)

push_stack(self, cv) ==
    [self EXCEPT !.cv_stack[self.cv_stack_len + 1] = cv,
                 !.cv_stack_len = self.cv_stack_len + 1]

\* pop_stack: the hasher after the pop, and the popped chaining value.
pop_stack(self) ==
    <<[self EXCEPT !.cv_stack_len = self.cv_stack_len - 1],
      self.cv_stack[self.cv_stack_len]>>

\* The chaining value of the chunk pushed with no merge.
push_without_merging(self, new_cv, total_chunks) == push_stack(self, new_cv)

RECURSIVE AddChunkStackCalls(_, _)
\* The calls add_chunk_chaining_value makes on the stack, in order, each
\* with cv_stack_len as the call finds it.
AddChunkStackCalls(cv_stack_len, total_chunks) ==
    IF total_chunks % 2 = 0
    THEN <<<<"pop_stack", cv_stack_len>>>>
             \o AddChunkStackCalls(cv_stack_len - 1, total_chunks \div 2)
    ELSE <<<<"push_stack", cv_stack_len>>>>

RECURSIVE UpdateStackCalls(_, _, _, _)
\* The stack calls of the while loop of Blake3Hasher::update, which depend
\* on the lengths only: of the stack, of the current chunk, of the input.
UpdateStackCalls(cv_stack_len, chunk_counter, chunk_len, input_len) ==
    IF input_len = 0 THEN <<>>
    ELSE LET full == chunk_len = CHUNK_LEN
             calls == IF full THEN AddChunkStackCalls(cv_stack_len, chunk_counter + 1)
                      ELSE <<>>
             len1 == IF full THEN cv_stack_len - (Len(calls) - 1) + 1
                     ELSE cv_stack_len
             counter1 == IF full THEN chunk_counter + 1 ELSE chunk_counter
             chunk_len1 == IF full THEN 0 ELSE chunk_len
             take == min(CHUNK_LEN - chunk_len1, input_len)
         IN  calls \o UpdateStackCalls(len1, counter1, chunk_len1 + take,
                                       input_len - take)

\* The stack calls of hasher.update on a slice of input_len bytes.
Blake3Hasher_update_stack_calls(self, input_len) ==
    UpdateStackCalls(self.cv_stack_len, self.chunk_state.chunk_counter,
                     ChunkState_len(self.chunk_state), input_len)

RECURSIVE add_chunk_chaining_value(_, _, _)
add_chunk_chaining_value(self, new_cv, total_chunks) ==
    IF total_chunks % 2 = 0
    THEN LET popped == pop_stack(self)
         IN  add_chunk_chaining_value(
                 popped[1],
                 parent_cv(popped[2], new_cv, self.key_words, self.flags),
                 total_chunks \div 2)
    ELSE push_stack(self, new_cv)

\* A chunk finalized into the stack already one byte short of complete.
finish_chunk_one_byte_short(self) ==
    IF ChunkState_len(self.chunk_state) >= CHUNK_LEN - 1
    THEN LET chunk_cv == chaining_value(ChunkState_output(self.chunk_state))
             total_chunks == self.chunk_state.chunk_counter + 1
         IN  [add_chunk_chaining_value(self, chunk_cv, total_chunks) EXCEPT
                 !.chunk_state = ChunkState_new(self.key_words, total_chunks, self.flags)]
    ELSE self

\* The first step of the loop body of Blake3Hasher::update: a complete chunk
\* is finalized into the stack and the chunk state reset.
FinishFullChunk(self) ==
    IF ChunkState_len(self.chunk_state) = CHUNK_LEN
    THEN LET chunk_cv == chaining_value(ChunkState_output(self.chunk_state))
             total_chunks == self.chunk_state.chunk_counter + 1
         IN  [add_chunk_chaining_value(self, chunk_cv, total_chunks) EXCEPT
                 !.chunk_state = ChunkState_new(self.key_words, total_chunks, self.flags)]
    ELSE self

RECURSIVE Blake3Hasher_update(_, _)
Blake3Hasher_update(self, input) ==
    IF input = <<>> THEN self
    ELSE LET s1 == FinishFullChunk(self)
             want == CHUNK_LEN - ChunkState_len(s1.chunk_state)
             take == min(want, Len(input))
             s2 == [s1 EXCEPT !.chunk_state =
                       ChunkState_update(s1.chunk_state, SubSeq(input, 1, take))]
         IN  Blake3Hasher_update(s2, SubSeq(input, take + 1, Len(input)))

RECURSIVE FinalizeLoop(_, _, _)
\* The while loop of Blake3Hasher::finalize: the root Output.
FinalizeLoop(self, output, parent_nodes_remaining) ==
    IF parent_nodes_remaining > 0
    THEN FinalizeLoop(self,
                      parent_output(self.cv_stack[parent_nodes_remaining],
                                    chaining_value(output),
                                    self.key_words, self.flags),
                      parent_nodes_remaining - 1)
    ELSE output

\* Blake3Hasher::finalize on an out_slice of out_len bytes: the bytes written.
Blake3Hasher_finalize(self, out_len) ==
    root_output_bytes(
        FinalizeLoop(self, ChunkState_output(self.chunk_state), self.cv_stack_len),
        out_len)

(***************************************************************************)
(* process_input_to_chunks                                                 *)
(***************************************************************************)

RECURSIVE ProcessLoop(_, _, _)
\* The while loop of process_input_to_chunks: the outputs pushed so far and
\* the chunk state when the input is exhausted.
ProcessLoop(outputs, chunk_state, input) ==
    IF input = <<>> THEN <<outputs, chunk_state>>
    ELSE LET full == ChunkState_len(chunk_state) = CHUNK_LEN
             outputs1 == IF full THEN Append(outputs, ChunkState_output(chunk_state))
                         ELSE outputs
             cs1 == IF full THEN ChunkState_new(IV, chunk_state.chunk_counter + 1, 0)
                    ELSE chunk_state
             want == CHUNK_LEN - ChunkState_len(cs1)
             take == min(want, Len(input))
         IN  ProcessLoop(outputs1,
                         ChunkState_update(cs1, SubSeq(input, 1, take)),
                         SubSeq(input, take + 1, Len(input)))

RECURSIVE ProcessLoopStates(_, _)
\* The state after a pass, followed by the states of the passes after it.
ProcessLoopStatesFrom(chunk_state, input) ==
    <<chunk_state>> \o ProcessLoopStates(chunk_state, input)

\* The chunk state of process_input_to_chunks after each pass of its while
\* loop, in order.
ProcessLoopStates(chunk_state, input) ==
    IF input = <<>> THEN <<>>
    ELSE LET full == ChunkState_len(chunk_state) = CHUNK_LEN
             cs1 == IF full THEN ChunkState_new(IV, chunk_state.chunk_counter + 1, 0)
                    ELSE chunk_state
             want == CHUNK_LEN - ChunkState_len(cs1)
             take == min(want, Len(input))
         IN  ProcessLoopStatesFrom(ChunkState_update(cs1, SubSeq(input, 1, take)),
                                   SubSeq(input, take + 1, Len(input)))

\* The last chunk pushed only when it is partial.
push_last_chunk_if_partial(done) ==
    IF ChunkState_len(done[2]) > 0 /\ ChunkState_len(done[2]) < CHUNK_LEN
    THEN Append(done[1], ChunkState_output(done[2]))
    ELSE done[1]

\* The end of process_input_to_chunks: the last, possibly partial, chunk.
PushLastChunk(done) ==
    IF ChunkState_len(done[2]) > 0
    THEN Append(done[1], ChunkState_output(done[2]))
    ELSE done[1]

process_input_to_chunks(input) ==
    PushLastChunk(ProcessLoop(<<>>, ChunkState_new(IV, 0, 0), input))

(***************************************************************************)
(* BinaryMerkleTree: the field `tree`, a Vec<Output>                       *)
(***************************************************************************)

\* self.tree[index]
At(tree, index) == tree[index + 1]

\* self.tree[index] = value
Store(tree, index, value) == [tree EXCEPT ![index + 1] = value]

RECURSIVE NextPow2From(_, _)
NextPow2From(p, n) == IF p >= n THEN p ELSE NextPow2From(2 * p, n)

\* usize::next_power_of_two: the smallest power of two >= n (1 for n = 0).
next_power_of_two(n) == NextPow2From(1, n)

\* A test that also accepts zero.
zero_or_power_of_two(n) == n = 0 \/ next_power_of_two(n) = n

\* u64::is_power_of_two
is_power_of_two(n) == n > 0 /\ next_power_of_two(n) = n

\* The filler Output of new_empty and of UnbalancedMerkleTree::new_from_leaves.
empty_output ==
    [input_chaining_value |-> IV,
     block_words |-> Array([i \in 1..16 |-> <<0, 0>>], 16),
     counter |-> 0,
     block_len |-> 64,
     flags |-> 0]

\* BinaryMerkleTree::new_empty, for a number_of_leaves that passes its assertion.
new_empty(number_of_leaves) ==
    Array([i \in 1..(2 * number_of_leaves) |-> empty_output], 2 * number_of_leaves)

\* BinaryMerkleTree::root
root(tree) == [At(tree, 1) EXCEPT !.flags = BitOr(At(tree, 1).flags, ROOT)]

num_leaves(tree) == Len(tree) \div 2

get_tree_length(tree) == Len(tree) - 1

\* The slot before, in place of the parent.
previous_index(index) == index - 1

get_parent_index(index) == index \div 2

\* The node itself, in place of its sibling.
own_index(index) == index

\* index ^ 1
get_sibling_index(index) == XorBits(index, 1, 64)

is_left(index) == index % 2 = 0

\* `bool as usize`
BoolAsUsize(b) == IF b THEN 1 ELSE 0

\* A pair that keeps the node ahead of its sibling whichever side it is on.
node_before_sibling(current_index) ==
    <<current_index, get_sibling_index(current_index)>>

\* The pair (left_node_index, right_node_index).
get_left_and_right_node_indices_from_index(current_index) ==
    LET sibling_index == get_sibling_index(current_index)
        node_pair == <<current_index, sibling_index>>
    IN  <<node_pair[BoolAsUsize(is_left(sibling_index)) + 1],
          node_pair[BoolAsUsize(is_left(current_index)) + 1]>>

\* A parent Output that takes the pair in the opposite order.
parent_of_swapped_pair(tree, pair) ==
    parent_output(chaining_value(At(tree, pair[2])),
                  chaining_value(At(tree, pair[1])), IV, 0)

\* The parent Output computed from the two slots of a sibling pair.
ParentOfPair(tree, pair) ==
    parent_output(chaining_value(At(tree, pair[1])),
                  chaining_value(At(tree, pair[2])), IV, 0)

RECURSIVE BuildAncestors(_, _)
RECURSIVE StoreParent(_, _, _, _)
\* The end of the loop body of create_tree_from_leaves: the parent is stored
\* and queued, and the loop goes on.
StoreParent(tree, hash_queue, parent, parent_index) ==
    BuildAncestors(Store(tree, parent_index, parent),
                   Append(SubSeq(hash_queue, 3, Len(hash_queue)),
                          <<parent, parent_index>>))

\* The while loop of create_tree_from_leaves over hash_queue, a queue of
\* (Output, index) pairs.
BuildAncestors(tree, hash_queue) ==
    IF Len(hash_queue) > 1
    THEN StoreParent(tree, hash_queue,
                     parent_output(chaining_value(hash_queue[1][1]),
                                   chaining_value(hash_queue[2][1]), IV, 0),
                     get_parent_index(hash_queue[1][2]))
    ELSE tree

\* create_tree_from_leaves with the leaf level taken to start one slot early.
create_tree_from_early_leaf_start(tree, leaves) ==
    LET number_of_leaves == Len(leaves)
        spliced == SubSeq(tree, 1, Len(tree) - number_of_leaves) \o leaves
        leaf_start_index == get_tree_length(spliced) \div 2
        zipped == min(Len(spliced) - leaf_start_index, number_of_leaves)
    IN  IF number_of_leaves = 1 THEN spliced
        ELSE BuildAncestors(
                 spliced,
                 Array([i \in 1..zipped |->
                           <<At(spliced, leaf_start_index + i - 1),
                             leaf_start_index + i - 1>>],
                       zipped))

\* BinaryMerkleTree::create_tree_from_leaves.  The Vec built by vec![_; n]
\* has capacity n, so the splice replaces its last leaves.len() slots.
create_tree_from_leaves(tree, leaves) ==
    LET number_of_leaves == Len(leaves)
        capacity == Len(tree)
        spliced == SubSeq(tree, 1, capacity - number_of_leaves) \o leaves
        leaf_start_index == (get_tree_length(spliced) \div 2) + 1
        \* tree[leaf_start_index..] zipped with
        \* leaf_start_index..leaf_start_index + number_of_leaves
        zipped == min(Len(spliced) - leaf_start_index, number_of_leaves)
        leaves_with_indices ==
            Array([i \in 1..zipped |->
                      <<At(spliced, leaf_start_index + i - 1), leaf_start_index + i - 1>>],
                  zipped)
    IN  IF number_of_leaves = 1 THEN spliced
        ELSE BuildAncestors(spliced, leaves_with_indices)

\* BinaryMerkleTree::new_from_leaves
new_from_leaves(leaves) ==
    create_tree_from_leaves(new_empty(next_power_of_two(Len(leaves))), leaves)

\* The walk of insert_leaf ended after the parent of the leaf.
insert_walk_parent_only(tree, current_index) ==
    IF current_index > 1
    THEN Store(tree, get_parent_index(current_index),
               ParentOfPair(tree, get_left_and_right_node_indices_from_index(current_index)))
    ELSE tree

RECURSIVE InsertWalk(_, _)
\* The while loop of insert_leaf.
InsertWalk(tree, current_index) ==
    IF current_index > 1
    THEN LET parent_index == get_parent_index(current_index)
             pair == get_left_and_right_node_indices_from_index(current_index)
         IN  InsertWalk(Store(tree, parent_index, ParentOfPair(tree, pair)),
                        parent_index)
    ELSE tree

\* BinaryMerkleTree::insert_leaf, for a leaf_index below num_leaves().
insert_leaf(tree, leaf_index, leaf_output) ==
    LET real_leaf_index == leaf_index + num_leaves(tree)
    IN  InsertWalk(Store(tree, real_leaf_index, leaf_output), real_leaf_index)

RECURSIVE InsertWalkStores(_)
\* The indices the while loop of insert_leaf stores to, in order, one
\* parent_output each.
InsertWalkStores(current_index) ==
    IF current_index > 1
    THEN <<get_parent_index(current_index)>>
             \o InsertWalkStores(get_parent_index(current_index))
    ELSE <<>>

\* The indices insert_leaf stores to, in order: the leaf, then the loop's.
insert_leaf_stores(tree, leaf_index) ==
    <<leaf_index + num_leaves(tree)>>
        \o InsertWalkStores(leaf_index + num_leaves(tree))

\* An ordering test that lets equal neighbours pass.
is_sorted_not_strictly(leaf_indices) ==
    \A i \in 0..(Len(leaf_indices) - 1) - 1 :
        leaf_indices[i + 1] <= leaf_indices[i + 2]

\* The is_sorted helper of BinaryMerkleTree::bulk_insert_leaves, for a
\* non-empty slice.
is_sorted(leaf_indices) ==
    \A i \in 0..(Len(leaf_indices) - 1) - 1 :
        leaf_indices[i + 1] < leaf_indices[i + 2]

\* is_sorted panics on an empty slice: 0..leaf_indices.len() - 1 subtracts
\* one from zero, which panics with overflow checks; without them the range
\* is 0..usize::MAX and leaf_indices[0] is out of bounds, which panics too.
is_sorted_panics(leaf_indices) == Len(leaf_indices) = 0

\* Only the first leaf of the sequence is stored.
write_first_leaf(tree, leaf_indices, leaf_hashes) ==
    IF leaf_indices = <<>> \/ leaf_hashes = <<>> THEN tree
    ELSE Store(tree, Head(leaf_indices), Head(leaf_hashes))

RECURSIVE WriteLeaves(_, _, _)
\* for (leaf_index, updated_leaf_hash) in leaf_indices.iter().zip(leaf_hashes_iter)
WriteLeaves(tree, leaf_indices, leaf_hashes) ==
    IF leaf_indices = <<>> \/ leaf_hashes = <<>> THEN tree
    ELSE WriteLeaves(Store(tree, Head(leaf_indices), Head(leaf_hashes)),
                     Tail(leaf_indices), Tail(leaf_hashes))

RECURSIVE update_ancestors_dropping_next(_, _)
\* The loop of bulk_insert_leaves with the next queue entry dropped whether
\* or not it is the sibling.
update_ancestors_dropping_next(tree, update_queue) ==
    IF update_queue = <<>> THEN tree
    ELSE LET current_index == Head(update_queue)
             popped == Tail(update_queue)
             rest == IF popped # <<>> THEN Tail(popped) ELSE popped
             pair == get_left_and_right_node_indices_from_index(current_index)
             parent_index == get_parent_index(current_index)
         IN  IF current_index = 1 THEN tree
             ELSE update_ancestors_dropping_next(
                      Store(tree, parent_index, ParentOfPair(tree, pair)),
                      Append(rest, parent_index))

RECURSIVE UpdateAncestors(_, _)
\* The while-let loop of bulk_insert_leaves over update_queue.
UpdateAncestors(tree, update_queue) ==
    IF update_queue = <<>> THEN tree
    ELSE LET current_index == Head(update_queue)
             popped == Tail(update_queue)
             sibling_index == get_sibling_index(current_index)
             rest == IF popped # <<>> /\ Head(popped) = sibling_index
                     THEN Tail(popped) ELSE popped
             pair == get_left_and_right_node_indices_from_index(current_index)
             parent_index == get_parent_index(current_index)
         IN  IF current_index = 1 THEN tree
             ELSE UpdateAncestors(Store(tree, parent_index, ParentOfPair(tree, pair)),
                                  Append(rest, parent_index))

RECURSIVE UpdateAncestorsStores(_)
\* The indices the while-let loop of bulk_insert_leaves stores to, in order,
\* one parent_output each.
UpdateAncestorsStores(update_queue) ==
    IF update_queue = <<>> THEN <<>>
    ELSE LET current_index == Head(update_queue)
             popped == Tail(update_queue)
             sibling_index == get_sibling_index(current_index)
             rest == IF popped # <<>> /\ Head(popped) = sibling_index
                     THEN Tail(popped) ELSE popped
             parent_index == get_parent_index(current_index)
         IN  IF current_index = 1 THEN <<>>
             ELSE <<parent_index>> \o UpdateAncestorsStores(Append(rest, parent_index))

\* The indices an accepted bulk_insert_leaves computes parents for, in order.
bulk_insert_leaves_stores(tree, leaf_indices_iter) ==
    UpdateAncestorsStores(Array([i \in 1..Len(leaf_indices_iter) |->
                                    leaf_indices_iter[i] + num_leaves(tree)],
                                Len(leaf_indices_iter)))

\* BinaryMerkleTree::bulk_insert_leaves, for a sequence of leaf indices
\* below num_leaves(): the tree after the call and the value returned, or
\* the tree at the panic and "panic".
bulk_insert_leaves(tree, leaf_indices_iter, leaf_hashes_iter) ==
    LET leaf_offset == num_leaves(tree)
        leaf_indices == Array([i \in 1..Len(leaf_indices_iter) |->
                                  leaf_indices_iter[i] + leaf_offset],
                              Len(leaf_indices_iter))
    IN  IF is_sorted_panics(leaf_indices)
        THEN [tree |-> tree, result |-> "panic"]
        ELSE IF ~is_sorted(leaf_indices)
        THEN [tree |-> tree, result |-> "None"]
        ELSE [tree |-> UpdateAncestors(
                           WriteLeaves(tree, leaf_indices, leaf_hashes_iter),
                           leaf_indices),
              result |-> "Some"]

(***************************************************************************)
(* UnbalancedMerkleTree: the fields `tree` and `actual_leaves`.  The build *)
(* profile decides what a usize subtraction below zero does: with overflow *)
(* checks (debug, the profile of the tests) it panics, without (release) it *)
(* wraps.  The operations that subtract take the profile as `checked` and  *)
(* return the tree with the outcome of the call.                           *)
(***************************************************************************)

\* Slot 1 as it is stored, with no flag added.
stored_slot_one(self) == At(self.tree, 1)

\* UnbalancedMerkleTree::root
Unbalanced_root(self) ==
    [At(self.tree, 1) EXCEPT !.flags = BitOr(At(self.tree, 1).flags, ROOT)]

Unbalanced_num_leaves(self) == self.actual_leaves

\* A promotion test that takes the slot after the last node for a sibling.
no_right_sibling_past_end(i, nodes_at_current_level) ==
    2 * i + 1 > nodes_at_current_level

\* if 2 * i + 1 >= nodes_at_current_level: the last node of the level has no
\* right sibling.
NoRightSibling(i, nodes_at_current_level) == 2 * i + 1 >= nodes_at_current_level

RECURSIVE build_level_pairing_every_node(_, _, _, _)
\* A level built with a parent computed for every node, the last one paired
\* with the slot behind it when it has no right sibling.
build_level_pairing_every_node(tree, current_level_start, nodes_at_current_level, i) ==
    LET parent_level_start == current_level_start \div 2
        nodes_in_parent_level == (nodes_at_current_level + 1) \div 2
        left_index == current_level_start + 2 * i
        right_index == left_index + 1
        parent_index == parent_level_start + i
    IN  IF i >= nodes_in_parent_level THEN tree
        ELSE build_level_pairing_every_node(
                 Store(tree, parent_index,
                       parent_output(chaining_value(At(tree, left_index)),
                                     chaining_value(At(tree, right_index)),
                                     IV, 0)),
                 current_level_start, nodes_at_current_level, i + 1)

RECURSIVE BuildLevel(_, _, _, _)
\* for i in 0..nodes_in_parent_level, from iteration i on.
BuildLevel(tree, current_level_start, nodes_at_current_level, i) ==
    LET parent_level_start == current_level_start \div 2
        nodes_in_parent_level == (nodes_at_current_level + 1) \div 2
        left_index == current_level_start + 2 * i
        right_index == left_index + 1
        parent_index == parent_level_start + i
    IN  IF i >= nodes_in_parent_level THEN tree
        ELSE BuildLevel(
                 Store(tree, parent_index,
                       IF NoRightSibling(i, nodes_at_current_level)
                       THEN At(tree, left_index)
                       ELSE parent_output(chaining_value(At(tree, left_index)),
                                          chaining_value(At(tree, right_index)),
                                          IV, 0)),
                 current_level_start, nodes_at_current_level, i + 1)

RECURSIVE build_levels_halving(_, _, _)
\* The level loop with the node count of the next level rounded down.
build_levels_halving(tree, current_level_start, nodes_at_current_level) ==
    IF current_level_start > 1
    THEN build_levels_halving(
             BuildLevel(tree, current_level_start, nodes_at_current_level, 0),
             current_level_start \div 2,
             nodes_at_current_level \div 2)
    ELSE tree

RECURSIVE BuildLevels(_, _, _)
\* while current_level_start > 1
BuildLevels(tree, current_level_start, nodes_at_current_level) ==
    IF current_level_start > 1
    THEN BuildLevels(BuildLevel(tree, current_level_start, nodes_at_current_level, 0),
                     current_level_start \div 2,
                     (nodes_at_current_level + 1) \div 2)
    ELSE tree

RECURSIVE CopyLeaves(_, _, _, _)
\* for (i, leaf) in leaves.into_iter().enumerate(), from iteration i on.
CopyLeaves(tree, leaf_start_index, leaves, i) ==
    IF i >= Len(leaves) THEN tree
    ELSE CopyLeaves(Store(tree, leaf_start_index + i, leaves[i + 1]),
                    leaf_start_index, leaves, i + 1)

\* UnbalancedMerkleTree::create_tree_from_leaves
Unbalanced_create_tree_from_leaves(self, leaves) ==
    LET leaf_start_index == Len(self.tree) \div 2
        copied == CopyLeaves(self.tree, leaf_start_index, leaves, 0)
    IN  IF self.actual_leaves = 1
        THEN [self EXCEPT !.tree = Store(copied, 1, At(copied, leaf_start_index))]
        ELSE [self EXCEPT !.tree = BuildLevels(copied, leaf_start_index,
                                               self.actual_leaves)]

\* UnbalancedMerkleTree::new_from_leaves
Unbalanced_new_from_leaves(leaves) ==
    Unbalanced_create_tree_from_leaves(
        [tree |-> Array([i \in 1..2 * next_power_of_two(Len(leaves)) |-> empty_output],
                        2 * next_power_of_two(Len(leaves))),
         actual_leaves |-> Len(leaves)],
        leaves)

\* self.tree.resize(new_size, self.tree[0]): the Vec keeps its elements
\* where they are and is filled up to new_size with copies of the value.
resize(tree, new_size, value) ==
    IF new_size > Len(tree)
    THEN tree \o Array([i \in 1..new_size - Len(tree) |-> value], new_size - Len(tree))
    ELSE SubSeq(tree, 1, new_size)

\* ExtendTree without the assignment to self.actual_leaves.
extend_tree_keeping_actual_leaves(self, leaf_index) ==
    IF leaf_index >= self.actual_leaves
    THEN [tree |-> resize(self.tree, 2 * next_power_of_two(leaf_index + 1),
                          At(self.tree, 0)),
          actual_leaves |-> self.actual_leaves]
    ELSE self

\* The tree is extended when leaf_index is beyond the current leaves.
ExtendTree(self, leaf_index) ==
    IF leaf_index >= self.actual_leaves
    THEN LET new_actual_leaves == leaf_index + 1
             new_size == next_power_of_two(new_actual_leaves) * 2
         IN  [tree |-> IF new_size > Len(self.tree)
                       THEN resize(self.tree, new_size, At(self.tree, 0))
                       ELSE self.tree,
              actual_leaves |-> new_actual_leaves]
    ELSE self

\* The parent slot of a pair: both children combined when there is a valid
\* right sibling, the left node promoted otherwise.
CombineOrPromote(tree, has_right_sibling, left_index, right_index) ==
    IF has_right_sibling
    THEN parent_output(chaining_value(At(tree, left_index)),
                       chaining_value(At(tree, right_index)), IV, 0)
    ELSE At(tree, left_index)

RECURSIVE Unbalanced_InsertWalk(_, _, _, _)
\* The while loop of UnbalancedMerkleTree::insert_leaf.  right_index -
\* leaf_start is below zero above the leaf level.
Unbalanced_InsertWalk(self, leaf_start, current_index, checked) ==
    IF current_index > 1
    THEN LET parent_index == current_index \div 2
             left_index == parent_index * 2
             right_index == left_index + 1
             right_leaf_index == right_index - leaf_start
             has_right_sibling == right_leaf_index >= 0
                                  /\ right_leaf_index < self.actual_leaves
         IN  IF checked /\ right_index < leaf_start
             THEN [self |-> self, result |-> "panic"]
             ELSE Unbalanced_InsertWalk(
                      [self EXCEPT !.tree =
                          Store(self.tree, parent_index,
                                CombineOrPromote(self.tree, has_right_sibling,
                                                 left_index, right_index))],
                      leaf_start, parent_index, checked)
    ELSE [self |-> self, result |-> "unit"]

\* insert_leaf once the tree has been extended: the leaf is stored and its
\* ancestors are updated.
StoreLeafAndWalk(self, leaf_index, leaf_output, checked) ==
    Unbalanced_InsertWalk(
        [self EXCEPT !.tree = Store(self.tree, leaf_index + (Len(self.tree) \div 2),
                                    leaf_output)],
        Len(self.tree) \div 2,
        leaf_index + (Len(self.tree) \div 2),
        checked)

\* UnbalancedMerkleTree::insert_leaf: the tree after the call and "unit", or
\* the tree at the panic and "panic".
Unbalanced_insert_leaf(self, leaf_index, leaf_output, checked) ==
    StoreLeafAndWalk(ExtendTree(self, leaf_index), leaf_index, leaf_output, checked)

\* An ordering test of windows that lets equal neighbours pass.
windows_not_descending(indices) ==
    \A w \in 1..Len(indices) - 1 : indices[w] <= indices[w + 1]

\* The is_sorted helper of UnbalancedMerkleTree::bulk_insert_leaves:
\* indices.windows(2).all(|w| w[0] < w[1])
Unbalanced_is_sorted(indices) ==
    \A w \in 1..Len(indices) - 1 : indices[w] < indices[w + 1]

\* leaf_indices.iter().max(), for a non-empty Vec
Max(indices) ==
    CHOOSE m \in {indices[i] : i \in DOMAIN indices} :
        \A i \in DOMAIN indices : indices[i] <= m

\* if let Some(&max_index) = leaf_indices.iter().max() { ... }
ExtendTreeForMax(self, leaf_indices) ==
    IF leaf_indices = <<>> THEN self
    ELSE IF Max(leaf_indices) >= self.actual_leaves
    THEN LET new_actual_leaves == Max(leaf_indices) + 1
             new_size == next_power_of_two(new_actual_leaves) * 2
         IN  [tree |-> IF new_size > Len(self.tree)
                       THEN resize(self.tree, new_size, At(self.tree, 0))
                       ELSE self.tree,
              actual_leaves |-> new_actual_leaves]
    ELSE self

RECURSIVE Unbalanced_WriteLeaves(_, _, _, _)
\* for (leaf_index, updated_leaf_hash) in leaf_indices.iter().zip(leaf_hashes_iter)
Unbalanced_WriteLeaves(tree, leaf_start, leaf_indices, leaf_hashes) ==
    IF leaf_indices = <<>> \/ leaf_hashes = <<>> THEN tree
    ELSE Unbalanced_WriteLeaves(
             Store(tree, leaf_start + Head(leaf_indices), Head(leaf_hashes)),
             leaf_start, Tail(leaf_indices), Tail(leaf_hashes))

RECURSIVE Unbalanced_UpdateAncestors(_, _, _, _)
RECURSIVE QueueParent(_, _, _, _, _)
\* update_queue.push_back(parent_index - leaf_start), and the loop goes on.
\* parent_index is below leaf_start.
QueueParent(self, leaf_start, update_queue, parent_index, checked) ==
    IF checked /\ parent_index < leaf_start
    THEN [self |-> self, result |-> "panic"]
    ELSE Unbalanced_UpdateAncestors(self, leaf_start,
                                    Append(update_queue, parent_index - leaf_start),
                                    checked)

\* The while-let loop of UnbalancedMerkleTree::bulk_insert_leaves over
\* update_queue, a queue of indices relative to leaf_start.
Unbalanced_UpdateAncestors(self, leaf_start, update_queue, checked) ==
    IF update_queue = <<>> THEN [self |-> self, result |-> "Some"]
    ELSE LET leaf_index == Head(update_queue)
             popped == Tail(update_queue)
             current_index == leaf_start + leaf_index
             parent_index == current_index \div 2
             left_index == parent_index * 2
             right_index == left_index + 1
             rest == IF popped # <<>> /\ leaf_start + Head(popped) = right_index
                     THEN Tail(popped) ELSE popped
             right_leaf_index == right_index - leaf_start
             has_right_sibling == right_leaf_index >= 0
                                  /\ right_leaf_index < self.actual_leaves
         IN  IF current_index <= 1 THEN [self |-> self, result |-> "Some"]
             ELSE IF checked /\ right_index < leaf_start
             THEN [self |-> self, result |-> "panic"]
             ELSE QueueParent(
                      [self EXCEPT !.tree =
                          Store(self.tree, parent_index,
                                CombineOrPromote(self.tree, has_right_sibling,
                                                 left_index, right_index))],
                      leaf_start, rest, parent_index, checked)

\* bulk_insert_leaves once the tree has been extended: the leaves are
\* stored and their ancestors updated.
WriteLeavesAndUpdate(self, leaf_indices, leaf_hashes, checked) ==
    Unbalanced_UpdateAncestors(
        [self EXCEPT !.tree = Unbalanced_WriteLeaves(self.tree, Len(self.tree) \div 2,
                                                     leaf_indices, leaf_hashes)],
        Len(self.tree) \div 2, leaf_indices, checked)

\* UnbalancedMerkleTree::bulk_insert_leaves: the tree after the call and the
\* value returned, or the tree at the panic and "panic".
Unbalanced_bulk_insert_leaves(self, leaf_indices, leaf_hashes, checked) ==
    IF ~Unbalanced_is_sorted(leaf_indices)
    THEN [self |-> self, result |-> "None"]
    ELSE WriteLeavesAndUpdate(ExtendTreeForMax(self, leaf_indices),
                              leaf_indices, leaf_hashes, checked)

(***************************************************************************)
(* The balanced tree kept up to date with a mutated input                  *)
(***************************************************************************)

VARIABLES
    input_bytes,      \* the caller's input buffer
    merkle_tree,      \* the tree: BinaryMerkleTree.tree, or the UnbalancedMerkleTree
    overflow_checks,  \* the build profile: TRUE when arithmetic overflow panics
    hasher,           \* a Blake3Hasher
    last              \* the last call: its arguments, the tree before it, its result

vars == <<input_bytes, merkle_tree, overflow_checks, hasher, last>>

\* The first len bytes of the unmodified input.
InputOfLength(len) == Array([i \in 1..len |-> BaseByte(i - 1)], len)

\* The unmodified input of n whole chunks.
WholeInput(n) == InputOfLength(n * CHUNK_LEN)

\* The position of the mutable byte of chunk c.
MutPosition(c) == c * CHUNK_LEN + MutOffset(c)

\* input[mutation_index] = original_byte ^ 0xFF
FlipAt(input, mutation_index) ==
    [input EXCEPT ![mutation_index + 1] = FlipByte(input[mutation_index + 1])]

RECURSIVE FlipChunks(_, _)
\* The input with the mutable byte of every chunk of the sequence flipped.
FlipChunks(input, chunk_indices) ==
    IF chunk_indices = <<>> THEN input
    ELSE FlipChunks(FlipAt(input, MutPosition(Head(chunk_indices))),
                    Tail(chunk_indices))

\* The caller's recomputation of the Output of one chunk of the input.
mutated_chunk_output(input, chunk_index) ==
    LET chunk_start == chunk_index * CHUNK_LEN
        chunk_end == min(chunk_start + CHUNK_LEN, Len(input))
    IN  ChunkState_output(
            ChunkState_update(ChunkState_new(IV, chunk_index, 0),
                              SubSeq(input, chunk_start + 1, chunk_end)))

\* The number of chunks of the input buffer.
NumChunks == (Len(input_bytes) + CHUNK_LEN - 1) \div CHUNK_LEN

RECURSIVE SortedSeq(_)
\* The elements of a finite set of numbers in ascending order.
SortedSeq(S) ==
    IF S = {} THEN <<>>
    ELSE LET m == CHOOSE x \in S : \A y \in S : x <= y
         IN  <<m>> \o SortedSeq(S \ {m})

\* The index sequences offered to bulk_insert_leaves on n leaves: the
\* ascending ones, the empty one included, and ones out of order or with a
\* duplicate.
BulkSeqs(n) ==
    {SortedSeq(S) : S \in SUBSET (0..n - 1)}
    \cup {q \in {<<i, j>> : i \in 0..n - 1, j \in 0..n - 1} : q[2] <= q[1]}
    \cup {q \in {<<i, j, i>> : i \in 0..n - 1, j \in 0..n - 1} : q[1] < q[2]}

\* The chunk counts of the inputs a balanced tree is built from: none, and
\* the powers of two up to MaxChunks.
BalancedChunkCounts == {0} \cup {n \in 1..MaxChunks : is_power_of_two(n)}

Init ==
    /\ input_bytes \in {WholeInput(n) : n \in BalancedChunkCounts}
    /\ merkle_tree = new_from_leaves(process_input_to_chunks(input_bytes))
    /\ overflow_checks = TRUE
    /\ hasher = Blake3Hasher_new
    /\ last = [op |-> "new_from_leaves", indices |-> <<>>, hashes |-> <<>>,
               before |-> <<>>, result |-> "unit"]

\* The caller's recomputation of the Outputs of the chunks of an index
\* sequence, each from the input with the byte of that chunk flipped.
mutated_chunk_outputs(input, chunk_indices) ==
    Array([i \in 1..Len(chunk_indices) |->
              mutated_chunk_output(FlipAt(input, MutPosition(chunk_indices[i])),
                                   chunk_indices[i])],
          Len(chunk_indices))

\* insert_leaf with the recomputed Output of a chunk.
InsertLeafCall(chunk_index, mutated_output) ==
    /\ merkle_tree' = insert_leaf(merkle_tree, chunk_index, mutated_output)
    /\ last' = [op |-> "insert_leaf", indices |-> <<chunk_index>>,
                hashes |-> <<mutated_output>>, before |-> merkle_tree,
                result |-> "unit"]
    /\ UNCHANGED <<overflow_checks, hasher>>

\* One byte of the input is flipped and the Output of its chunk inserted.
InsertLeaf ==
    /\ last.result # "panic"
    /\ \E chunk_index \in 0..NumChunks - 1 :
           /\ input_bytes' = FlipAt(input_bytes, MutPosition(chunk_index))
           /\ InsertLeafCall(chunk_index,
                             mutated_chunk_outputs(input_bytes, <<chunk_index>>)[1])

\* The caller after bulk_insert_leaves: it keeps the mutated buffer when the
\* call succeeds.
BulkInsertLeavesCall(chunk_indices, chunk_outputs, call) ==
    /\ input_bytes' = IF call.result = "Some"
                      THEN FlipChunks(input_bytes, chunk_indices)
                      ELSE input_bytes
    /\ merkle_tree' = call.tree
    /\ last' = [op |-> "bulk_insert_leaves", indices |-> chunk_indices,
                hashes |-> chunk_outputs, before |-> merkle_tree,
                result |-> call.result]
    /\ UNCHANGED <<overflow_checks, hasher>>

\* The Outputs of the chunks are offered to bulk_insert_leaves.
BulkInsertLeavesWith(chunk_indices, chunk_outputs) ==
    BulkInsertLeavesCall(chunk_indices, chunk_outputs,
                         bulk_insert_leaves(merkle_tree, chunk_indices, chunk_outputs))

\* One byte of each chunk of an index sequence is flipped and the Outputs
\* of the chunks offered to bulk_insert_leaves.
BulkInsertLeaves ==
    /\ last.result # "panic"
    /\ \E chunk_indices \in BulkSeqs(NumChunks) :
           BulkInsertLeavesWith(chunk_indices,
                                mutated_chunk_outputs(input_bytes, chunk_indices))

Next == InsertLeaf \/ BulkInsertLeaves

Spec == Init /\ [][Next]_vars

(***************************************************************************)
(* The unbalanced tree kept up to date with an input that is mutated and   *)
(* extended.  A panic ends the program.                                    *)
(***************************************************************************)

\* n chunks of unmodified input, the last one a single block.
ShortTailInput(n) == InputOfLength((n - 1) * CHUNK_LEN + BLOCK_LEN)

UnbalancedInputs ==
    {WholeInput(n) : n \in 1..MaxChunks} \cup {ShortTailInput(n) : n \in 1..MaxChunks}

\* The input with len more bytes.
AppendBytes(input, len) ==
    input \o Array([i \in 1..len |-> BaseByte(Len(input) + i - 1)], len)

Running == last.result # "panic"

\* A further chunk can follow the input: its chunks are whole and fewer than
\* MaxChunks.
CanAppend == Len(input_bytes) % CHUNK_LEN = 0 /\ NumChunks < MaxChunks

\* The mutable byte of chunk c is within the input.
Mutable(c) == MutPosition(c) < Len(input_bytes)

UnbalancedInit ==
    /\ input_bytes \in UnbalancedInputs
    /\ merkle_tree = Unbalanced_new_from_leaves(process_input_to_chunks(input_bytes))
    /\ overflow_checks \in BOOLEAN
    /\ hasher = Blake3Hasher_new
    /\ last = [op |-> "new_from_leaves", indices |-> <<>>, hashes |-> <<>>,
               before |-> <<>>, result |-> "unit"]

\* The caller after insert_leaf.
UnbalancedInsertLeafCall(leaf_index, leaf_output, call) ==
    /\ merkle_tree' = call.self
    /\ last' = [op |-> "insert_leaf", indices |-> <<leaf_index>>,
                hashes |-> <<leaf_output>>, before |-> merkle_tree,
                result |-> call.result]
    /\ UNCHANGED <<overflow_checks, hasher>>

\* insert_leaf with the Output of chunk leaf_index of the new input.
UnbalancedInsertLeafWith(input, leaf_index, leaf_output) ==
    /\ input_bytes' = input
    /\ UnbalancedInsertLeafCall(
           leaf_index, leaf_output,
           Unbalanced_insert_leaf(merkle_tree, leaf_index, leaf_output, overflow_checks))

\* One byte of the input is flipped and the Output of its chunk inserted.
UnbalancedInsertLeaf ==
    /\ Running
    /\ \E chunk_index \in 0..NumChunks - 1 :
           /\ Mutable(chunk_index)
           /\ UnbalancedInsertLeafWith(
                  FlipAt(input_bytes, MutPosition(chunk_index)), chunk_index,
                  mutated_chunk_output(FlipAt(input_bytes, MutPosition(chunk_index)),
                                       chunk_index))

\* The input grows by a chunk, a single block or a whole one, and the Output
\* of the chunk is inserted behind the last leaf.
UnbalancedAppendLeaf ==
    /\ Running
    /\ CanAppend
    /\ \E len \in {BLOCK_LEN, CHUNK_LEN} :
           UnbalancedInsertLeafWith(
               AppendBytes(input_bytes, len), NumChunks,
               mutated_chunk_output(AppendBytes(input_bytes, len), NumChunks))

\* The index sequences offered to bulk_insert_leaves, over the indices up to
\* top: one index, two ascending indices, and top followed by an index that
\* is not above it.
UnbalancedBulkSeqs(top) ==
    {<<i>> : i \in 0..top}
    \cup {q \in {<<i, j>> : i \in 0..top, j \in 0..top} : q[1] < q[2]}
    \cup {<<top, j>> : j \in 0..top}

\* The input of a bulk call: with a further whole chunk when the sequence
\* holds the index behind the last leaf.
BulkInput(chunk_indices) ==
    IF \E i \in DOMAIN chunk_indices : chunk_indices[i] = NumChunks
    THEN AppendBytes(input_bytes, CHUNK_LEN)
    ELSE input_bytes

\* The Outputs of the chunks of an index sequence: of the further chunk, and
\* of each other chunk with its byte flipped.
BulkOutputs(input, num_chunks, chunk_indices) ==
    Array([i \in 1..Len(chunk_indices) |->
              mutated_chunk_output(
                  IF chunk_indices[i] = num_chunks THEN input
                  ELSE FlipAt(input, MutPosition(chunk_indices[i])),
                  chunk_indices[i])],
          Len(chunk_indices))

\* The caller after bulk_insert_leaves: it keeps the new buffer unless the
\* call returns None.
UnbalancedBulkInsertLeavesCall(input, num_chunks, chunk_indices, chunk_outputs, call) ==
    /\ input_bytes' = IF call.result = "None" THEN input_bytes
                      ELSE FlipChunks(input, SelectSeq(chunk_indices,
                                                       LAMBDA c : c < num_chunks))
    /\ merkle_tree' = call.self
    /\ last' = [op |-> "bulk_insert_leaves", indices |-> chunk_indices,
                hashes |-> chunk_outputs, before |-> merkle_tree,
                result |-> call.result]
    /\ UNCHANGED <<overflow_checks, hasher>>

UnbalancedBulkInsertLeavesWith(input, chunk_indices, chunk_outputs) ==
    UnbalancedBulkInsertLeavesCall(
        input, NumChunks, chunk_indices, chunk_outputs,
        Unbalanced_bulk_insert_leaves(merkle_tree, chunk_indices, chunk_outputs,
                                      overflow_checks))

\* The Outputs of the chunks of an index sequence are offered to
\* bulk_insert_leaves.
UnbalancedBulkInsertLeaves ==
    /\ Running
    /\ \E chunk_indices \in
               UnbalancedBulkSeqs(IF CanAppend THEN NumChunks ELSE NumChunks - 1) :
           /\ \A i \in DOMAIN chunk_indices :
                  chunk_indices[i] < NumChunks => Mutable(chunk_indices[i])
           /\ UnbalancedBulkInsertLeavesWith(
                  BulkInput(chunk_indices), chunk_indices,
                  BulkOutputs(BulkInput(chunk_indices), NumChunks, chunk_indices))

UnbalancedNext ==
    UnbalancedInsertLeaf \/ UnbalancedAppendLeaf \/ UnbalancedBulkInsertLeaves

SpecU == UnbalancedInit /\ [][UnbalancedNext]_vars

(***************************************************************************)
(* The streaming hasher fed slice by slice and finalised.  last.indices is *)
(* the sequence of the lengths of the slices fed so far.                   *)
(***************************************************************************)

\* The number of update calls on one hasher.
MaxUpdates == 3

\* The number of whole chunks fed to one hasher, besides a further block.
MaxHashChunks == 2

\* The lengths of the slices: none, and around a block and a chunk.
SliceLengths ==
    {0, 1, BLOCK_LEN - 1, BLOCK_LEN, BLOCK_LEN + 1, CHUNK_LEN - 1, CHUNK_LEN}

HasherInit ==
    /\ input_bytes = <<>>
    /\ merkle_tree = <<>>
    /\ overflow_checks = TRUE
    /\ hasher = Blake3Hasher_new
    /\ last = [op |-> "new", indices |-> <<>>, hashes |-> <<>>,
               before |-> Blake3Hasher_new, result |-> <<>>]

\* hasher.update(slice), the slice following the bytes fed so far.
HasherUpdate ==
    \E len \in SliceLengths :
        /\ Len(last.indices) < MaxUpdates
        /\ Len(input_bytes) + len <= MaxHashChunks * CHUNK_LEN + BLOCK_LEN
        /\ input_bytes' = AppendBytes(input_bytes, len)
        /\ hasher' = Blake3Hasher_update(
                         hasher, SubSeq(AppendBytes(input_bytes, len),
                                        Len(input_bytes) + 1, Len(input_bytes) + len))
        /\ last' = [op |-> "update", indices |-> Append(last.indices, len),
                    hashes |-> <<>>, before |-> hasher, result |-> <<>>]
        /\ UNCHANGED <<merkle_tree, overflow_checks>>

\* hasher.finalize(&mut hash) into 32 bytes; the hasher is borrowed shared.
HasherFinalize ==
    /\ last' = [op |-> "finalize", indices |-> last.indices, hashes |-> <<>>,
                before |-> hasher, result |-> Blake3Hasher_finalize(hasher, OUT_LEN)]
    /\ UNCHANGED <<input_bytes, merkle_tree, overflow_checks, hasher>>

\* self.chunk_state.output(), the first step of finalize, on its own.
HasherChunkOutput ==
    /\ last' = [op |-> "output", indices |-> last.indices,
                hashes |-> <<ChunkState_output(hasher.chunk_state)>>,
                before |-> hasher, result |-> <<>>]
    /\ UNCHANGED <<input_bytes, merkle_tree, overflow_checks, hasher>>

HasherNext == HasherUpdate \/ HasherFinalize \/ HasherChunkOutput

SpecH == HasherInit /\ [][HasherNext]_vars

(***************************************************************************)
(* The streaming hasher fed up to MaxChunks + 1 chunks, in slices of one   *)
(* or two chunks or around a chunk, so that subtrees are merged on the     *)
(* stack, and the chunk producer run on the bytes fed so far.              *)
(***************************************************************************)

\* The lengths of the slices: a byte, around a chunk, and two chunks.
ChunkSliceLengths ==
    {1, CHUNK_LEN - 1, CHUNK_LEN, CHUNK_LEN + 1, 2 * CHUNK_LEN}

\* hasher.update(slice), the slice following the bytes fed so far.
HasherUpdateChunks ==
    \E len \in ChunkSliceLengths :
        /\ Len(last.indices) < MaxUpdates
        /\ Len(input_bytes) + len <= (MaxChunks + 1) * CHUNK_LEN
        /\ input_bytes' = AppendBytes(input_bytes, len)
        /\ hasher' = Blake3Hasher_update(
                         hasher, SubSeq(AppendBytes(input_bytes, len),
                                        Len(input_bytes) + 1, Len(input_bytes) + len))
        /\ last' = [op |-> "update", indices |-> Append(last.indices, len),
                    hashes |-> <<>>, before |-> hasher, result |-> <<>>]
        /\ UNCHANGED <<merkle_tree, overflow_checks>>

\* process_input_to_chunks(&input) on the bytes fed so far; last.hashes
\* holds the Outputs returned.
ProcessInputToChunks ==
    /\ last' = [op |-> "process_input_to_chunks", indices |-> last.indices,
                hashes |-> process_input_to_chunks(input_bytes),
                before |-> hasher, result |-> <<>>]
    /\ UNCHANGED <<input_bytes, merkle_tree, overflow_checks, hasher>>

ChunkNext == HasherUpdateChunks \/ ProcessInputToChunks

SpecK == HasherInit /\ [][ChunkNext]_vars

(***************************************************************************)
(* Construction and reads.  Both trees are built from the chunk Outputs of *)
(* one input, of any chunk count up to MaxChunks; merkle_tree holds the    *)
(* two of them.  root() and root_output_bytes borrow shared; new_empty     *)
(* makes a new balanced tree or fails its assertion, which ends the        *)
(* program.                                                                *)
(***************************************************************************)

\* The largest number_of_leaves offered to new_empty.
MaxEmptyLeaves == 8

\* The lengths of the out_slice of root_output_bytes: around an output block
\* of 2 * OUT_LEN bytes, multiples of 4 and others.
OutLens == {0, 1, OUT_LEN - 1, 2 * OUT_LEN, 2 * OUT_LEN + 1, 4 * OUT_LEN + 1}

\* No assertion of new_empty has failed.
Alive == ~(last.op = "new_empty" /\ last.result = "panic")

ReadInit ==
    /\ input_bytes \in {WholeInput(n) : n \in 0..MaxChunks}
    /\ merkle_tree =
           [balanced |-> new_from_leaves(process_input_to_chunks(input_bytes)),
            unbalanced |-> Unbalanced_new_from_leaves(process_input_to_chunks(input_bytes))]
    /\ overflow_checks = TRUE
    /\ hasher = Blake3Hasher_new
    /\ last = [op |-> "new_from_leaves", indices |-> <<>>,
               hashes |-> process_input_to_chunks(input_bytes),
               before |-> <<>>, result |-> "unit"]

\* tree.root() on the balanced tree.
RootCall ==
    /\ Alive
    /\ last' = [op |-> "root", indices |-> <<>>, hashes |-> <<>>,
                before |-> merkle_tree, result |-> root(merkle_tree.balanced)]
    /\ UNCHANGED <<input_bytes, merkle_tree, overflow_checks, hasher>>

\* tree.root() on the unbalanced tree.
UnbalancedRootCall ==
    /\ Alive
    /\ last' = [op |-> "unbalanced_root", indices |-> <<>>, hashes |-> <<>>,
                before |-> merkle_tree,
                result |-> Unbalanced_root(merkle_tree.unbalanced)]
    /\ UNCHANGED <<input_bytes, merkle_tree, overflow_checks, hasher>>

\* output.root_output_bytes(&mut out_slice) on the Output of the root slot
\* or of the last leaf slot of the balanced tree.
RootOutputBytesCall ==
    /\ Alive
    /\ Len(merkle_tree.balanced) >= 2
    /\ \E slot \in {1, Len(merkle_tree.balanced) - 1} : \E out_len \in OutLens :
           last' = [op |-> "root_output_bytes", indices |-> <<slot, out_len>>,
                    hashes |-> <<At(merkle_tree.balanced, slot)>>,
                    before |-> merkle_tree,
                    result |-> root_output_bytes(At(merkle_tree.balanced, slot),
                                                 out_len)]
    /\ UNCHANGED <<input_bytes, merkle_tree, overflow_checks, hasher>>

\* BinaryMerkleTree::new_empty(number_of_leaves), with its assertion.
NewEmptyCall ==
    /\ Alive
    /\ \E number_of_leaves \in 0..MaxEmptyLeaves :
           /\ merkle_tree' = IF is_power_of_two(number_of_leaves)
                             THEN [merkle_tree EXCEPT
                                      !.balanced = new_empty(number_of_leaves)]
                             ELSE merkle_tree
           /\ last' = [op |-> "new_empty", indices |-> <<number_of_leaves>>,
                       hashes |-> <<>>, before |-> merkle_tree,
                       result |-> IF is_power_of_two(number_of_leaves)
                                  THEN "unit" ELSE "panic"]
    /\ UNCHANGED <<input_bytes, overflow_checks, hasher>>

ReadNext == RootCall \/ UnbalancedRootCall \/ RootOutputBytesCall \/ NewEmptyCall

SpecR == ReadInit /\ [][ReadNext]_vars

(***************************************************************************)
(* Both trees kept up to date with one input that is mutated: every call   *)
(* is made on the balanced and on the unbalanced tree with the same        *)
(* arguments, in either overflow-check profile, and root() is read from    *)
(* both.  A panic ends the program.                                        *)
(***************************************************************************)

BothInit ==
    /\ input_bytes \in {WholeInput(n) : n \in 1..MaxChunks}
    /\ merkle_tree =
           [balanced |-> new_from_leaves(process_input_to_chunks(input_bytes)),
            unbalanced |-> Unbalanced_new_from_leaves(process_input_to_chunks(input_bytes))]
    /\ overflow_checks \in BOOLEAN
    /\ hasher = Blake3Hasher_new
    /\ last = [op |-> "new_from_leaves", indices |-> <<>>,
               hashes |-> process_input_to_chunks(input_bytes),
               before |-> <<>>, result |-> "unit"]

\* The caller after insert_leaf on both trees.
BothInsertLeafCall(chunk_index, mutated_output, call) ==
    /\ merkle_tree' = [balanced |-> insert_leaf(merkle_tree.balanced, chunk_index,
                                                mutated_output),
                       unbalanced |-> call.self]
    /\ last' = [op |-> "insert_leaf", indices |-> <<chunk_index>>,
                hashes |-> <<mutated_output>>, before |-> merkle_tree,
                result |-> call.result]
    /\ UNCHANGED <<overflow_checks, hasher>>

\* One byte of the input is flipped and the Output of its chunk inserted
\* into both trees.
BothInsertLeaf ==
    /\ Running
    /\ \E chunk_index \in 0..NumChunks - 1 :
           /\ input_bytes' = FlipAt(input_bytes, MutPosition(chunk_index))
           /\ BothInsertLeafCall(
                  chunk_index,
                  mutated_chunk_outputs(input_bytes, <<chunk_index>>)[1],
                  Unbalanced_insert_leaf(
                      merkle_tree.unbalanced, chunk_index,
                      mutated_chunk_outputs(input_bytes, <<chunk_index>>)[1],
                      overflow_checks))

\* The caller after bulk_insert_leaves on both trees: it keeps the mutated
\* buffer when the calls succeed.
BothBulkInsertLeavesCall(chunk_indices, chunk_outputs, balanced_call, call) ==
    /\ input_bytes' = IF balanced_call.result = "Some"
                      THEN FlipChunks(input_bytes, chunk_indices)
                      ELSE input_bytes
    /\ merkle_tree' = [balanced |-> balanced_call.tree, unbalanced |-> call.self]
    /\ last' = [op |-> "bulk_insert_leaves", indices |-> chunk_indices,
                hashes |-> chunk_outputs, before |-> merkle_tree,
                result |-> call.result]
    /\ UNCHANGED <<overflow_checks, hasher>>

\* One byte of each chunk of an index sequence is flipped and the Outputs
\* of the chunks offered to bulk_insert_leaves of both trees.
BothBulkInsertLeaves ==
    /\ Running
    /\ \E chunk_indices \in UnbalancedBulkSeqs(NumChunks - 1) :
           BothBulkInsertLeavesCall(
               chunk_indices, mutated_chunk_outputs(input_bytes, chunk_indices),
               bulk_insert_leaves(merkle_tree.balanced, chunk_indices,
                                  mutated_chunk_outputs(input_bytes, chunk_indices)),
               Unbalanced_bulk_insert_leaves(
                   merkle_tree.unbalanced, chunk_indices,
                   mutated_chunk_outputs(input_bytes, chunk_indices),
                   overflow_checks))

\* root() on both trees; last.hashes holds the two Outputs returned.
BothRoot ==
    /\ Running
    /\ last' = [op |-> "root", indices |-> <<>>,
                hashes |-> <<root(merkle_tree.balanced),
                             Unbalanced_root(merkle_tree.unbalanced)>>,
                before |-> merkle_tree, result |-> "unit"]
    /\ UNCHANGED <<input_bytes, merkle_tree, overflow_checks, hasher>>

BothNext == BothInsertLeaf \/ BothBulkInsertLeaves \/ BothRoot

SpecB == BothInit /\ [][BothNext]_vars

(***************************************************************************)
(* Properties of the balanced tree, under Spec                             *)
(***************************************************************************)

\* Blake3Hasher::new() updated with the input and finalised to 32 bytes.
StreamingHash(input) ==
    Blake3Hasher_finalize(Blake3Hasher_update(Blake3Hasher_new, input), OUT_LEN)

\* root().root_output_bytes over 32 bytes.
TreeRootBytes == root_output_bytes(root(merkle_tree), OUT_LEN)

\* The input is 1024 * 2^k bytes long.
PowerOfTwoInput ==
    /\ is_power_of_two(NumChunks)
    /\ Len(input_bytes) = CHUNK_LEN * NumChunks

StrictlyAscending(indices) ==
    \A i \in 1..Len(indices) : \A j \in 1..Len(indices) :
        i < j => indices[i] < indices[j]

\* The chunks of the input whose mutable byte is flipped.
MutatedChunks ==
    {c \in 0..NumChunks - 1 : MutPosition(c) < Len(input_bytes)
                              /\ input_bytes[MutPosition(c) + 1] # BaseByte(MutPosition(c))}

RECURSIVE InsertEach(_, _, _)
\* insert_leaf once per entry of the sequence, in its order.
InsertEach(tree, indices, hashes) ==
    IF indices = <<>> THEN tree
    ELSE InsertEach(insert_leaf(tree, Head(indices), Head(hashes)),
                    Tail(indices), Tail(hashes))

\* C1: the balanced tree built from the chunk Outputs of a non-empty input
\* of 1024 * 2^k bytes has a root whose 32 output bytes are the streaming
\* hash of the input.
C1_RootOfNewTreeIsStreamingHash ==
    (last.op = "new_from_leaves" /\ PowerOfTwoInput)
        => TreeRootBytes = StreamingHash(input_bytes)

C1_Witness ==
    /\ last.op = "new_from_leaves"
    /\ PowerOfTwoInput
    /\ NumChunks > 2
    /\ TreeRootBytes = StreamingHash(input_bytes)

\* C2: after each single-byte change followed by insert_leaf of the
\* recomputed Output of its chunk, the root of the balanced tree is the
\* streaming hash of the mutated input.
C2_RootAfterInsertLeafIsStreamingHash ==
    (last.op = "insert_leaf" /\ PowerOfTwoInput)
        => TreeRootBytes = StreamingHash(input_bytes)

C2_Witness ==
    /\ last.op = "insert_leaf"
    /\ PowerOfTwoInput
    /\ NumChunks > 2
    /\ Cardinality(MutatedChunks) >= 2
    /\ last.indices[1] % 2 = 1
    /\ TreeRootBytes = StreamingHash(input_bytes)

\* C3: bulk_insert_leaves with a non-empty strictly ascending sequence of
\* mutated chunk indices and their recomputed Outputs returns success, and
\* the root of the balanced tree is the streaming hash of the mutated input.
C3_BulkInsertSucceedsAndRootIsStreamingHash ==
    (/\ last.op = "bulk_insert_leaves"
     /\ Len(last.indices) >= 1
     /\ StrictlyAscending(last.indices)
     /\ PowerOfTwoInput)
        => (last.result = "Some" /\ TreeRootBytes = StreamingHash(input_bytes))

C3_Witness ==
    /\ last.op = "bulk_insert_leaves"
    /\ Len(last.indices) >= 2
    /\ StrictlyAscending(last.indices)
    /\ last.indices[2] > last.indices[1] + 1
    /\ PowerOfTwoInput
    /\ last.result = "Some"
    /\ merkle_tree # last.before

\* C4: bulk_insert_leaves with a non-empty strictly ascending sequence
\* leaves every slot of the node array as insert_leaf called once per entry,
\* in ascending order, on the same starting tree leaves it.
C4_BulkInsertEqualsSequentialInserts ==
    (/\ last.op = "bulk_insert_leaves"
     /\ Len(last.indices) >= 1
     /\ StrictlyAscending(last.indices))
        => merkle_tree = InsertEach(last.before, last.indices, last.hashes)

C4_Witness ==
    /\ last.op = "bulk_insert_leaves"
    /\ Len(last.indices) >= 3
    /\ StrictlyAscending(last.indices)
    /\ merkle_tree # last.before
    /\ merkle_tree = InsertEach(last.before, last.indices, last.hashes)

\* C5: bulk_insert_leaves of the balanced tree with a sequence of two or
\* more indices that is not strictly ascending returns None and leaves every
\* slot of the tree, and root(), as before the call.
C5_UnsortedBulkInsertChangesNothing ==
    (/\ last.op = "bulk_insert_leaves"
     /\ Len(last.indices) >= 2
     /\ ~StrictlyAscending(last.indices))
        => (/\ last.result = "None"
            /\ merkle_tree = last.before
            /\ root(merkle_tree) = root(last.before))

C5_Witness ==
    /\ last.op = "bulk_insert_leaves"
    /\ Len(last.indices) >= 2
    /\ last.indices[1] = last.indices[2]
    /\ last.result = "None"
    /\ merkle_tree = last.before

\* C7: the balanced tree built from the chunk Outputs of the empty input
\* has a root whose 32 output bytes are the streaming hash of no input.
C7_RootOfEmptyInputIsStreamingHash ==
    (last.op = "new_from_leaves" /\ Len(input_bytes) = 0)
        => TreeRootBytes = StreamingHash(input_bytes)

\* Every internal slot i in 1..C-1 of the tree is the parent Output of the
\* slots 2i and 2i+1.
InternalSlotsAreParents(tree) ==
    \A i \in 1..(num_leaves(tree) - 1) :
        At(tree, i) = parent_output(chaining_value(At(tree, 2 * i)),
                                    chaining_value(At(tree, 2 * i + 1)), IV, 0)

\* C17: after new_from_leaves with a power-of-two number C >= 2 of leaves
\* and after any sequence of insert_leaf and bulk_insert_leaves calls,
\* successful or rejected, every internal slot i in 1..C-1 is
\* parent_output(tree[2i].chaining_value(), tree[2i+1].chaining_value(), IV, 0).
C17_InternalSlotsAreParentsOfChildren ==
    (PowerOfTwoInput /\ NumChunks >= 2) => InternalSlotsAreParents(merkle_tree)

\* A rejected bulk_insert_leaves on a tree of four leaves that earlier calls
\* have changed in two chunks.
C17_Witness ==
    /\ last.op = "bulk_insert_leaves"
    /\ last.result = "None"
    /\ PowerOfTwoInput
    /\ NumChunks = 4
    /\ Cardinality(MutatedChunks) >= 2
    /\ merkle_tree # new_from_leaves(process_input_to_chunks(WholeInput(4)))
    /\ InternalSlotsAreParents(merkle_tree)

\* The slots C + i, (C + i) / 2, (C + i) / 4, ..., 1 of leaf i in a tree of
\* capacity C = 2^k, in this order.
PathToRoot(C, i) ==
    LET k == CHOOSE e \in 0..C : Pow2(e) = C
    IN  [step \in 1..(k + 1) |-> (C + i) \div Pow2(step - 1)]

\* C20: insert_leaf(i, out) on a tree of capacity C writes exactly the leaf
\* slot C + i and its log2(C) ancestors (C+i)/2, ..., 1, each once with one
\* parent_output computation, and leaves every other slot, slot 0 and the
\* sibling subtrees included, unchanged.
C20_InsertLeafWritesOnlyThePath ==
    last.op = "insert_leaf" =>
        /\ insert_leaf_stores(last.before, last.indices[1])
              = PathToRoot(num_leaves(last.before), last.indices[1])
        /\ Len(merkle_tree) = Len(last.before)
        /\ \A slot \in 0..(Len(merkle_tree) - 1) :
               (\A step \in DOMAIN PathToRoot(num_leaves(last.before), last.indices[1]) :
                    PathToRoot(num_leaves(last.before), last.indices[1])[step] # slot)
                   => At(merkle_tree, slot) = At(last.before, slot)
        /\ At(merkle_tree, num_leaves(last.before) + last.indices[1]) = last.hashes[1]
        /\ \A step \in 2..Len(PathToRoot(num_leaves(last.before), last.indices[1])) :
               At(merkle_tree, PathToRoot(num_leaves(last.before), last.indices[1])[step])
                 = parent_output(
                       chaining_value(At(merkle_tree,
                           2 * PathToRoot(num_leaves(last.before), last.indices[1])[step])),
                       chaining_value(At(merkle_tree,
                           2 * PathToRoot(num_leaves(last.before), last.indices[1])[step] + 1)),
                       IV, 0)

\* insert_leaf(2, .) on a tree of four leaves changed slots 6, 3 and 1 and
\* no other.
C20_Witness ==
    /\ last.op = "insert_leaf"
    /\ last.indices = <<2>>
    /\ num_leaves(last.before) = 4
    /\ insert_leaf_stores(last.before, 2) = <<6, 3, 1>>
    /\ \A slot \in {1, 3, 6} : At(merkle_tree, slot) # At(last.before, slot)
    /\ \A slot \in {0, 2, 4, 5, 7} : At(merkle_tree, slot) = At(last.before, slot)

\* The internal slots above the leaves of an index sequence in a tree of
\* capacity C.
AncestorsOf(C, indices) ==
    {slot \in 1..(C - 1) :
        \E i \in 1..Len(indices) : \E e \in 1..C :
            Pow2(e) <= C /\ (C + indices[i]) \div Pow2(e) = slot}

\* C21: during one successful bulk_insert_leaves with strictly ascending
\* in-range indices every internal slot above an updated leaf is recomputed
\* exactly once, after both of its children hold their final values; no
\* other internal slot is written; and the parent computations are no more
\* than those of one insert_leaf per index.
C21_BulkInsertRecomputesEachAncestorOnce ==
    (/\ last.op = "bulk_insert_leaves"
     /\ last.result = "Some"
     /\ StrictlyAscending(last.indices)) =>
        /\ {bulk_insert_leaves_stores(last.before, last.indices)[k] :
                k \in 1..Len(bulk_insert_leaves_stores(last.before, last.indices))}
              = AncestorsOf(num_leaves(last.before), last.indices)
        /\ \A j \in 1..Len(bulk_insert_leaves_stores(last.before, last.indices)) :
           \A k \in 1..Len(bulk_insert_leaves_stores(last.before, last.indices)) :
               j < k =>
                   /\ bulk_insert_leaves_stores(last.before, last.indices)[j]
                         # bulk_insert_leaves_stores(last.before, last.indices)[k]
                   /\ bulk_insert_leaves_stores(last.before, last.indices)[k]
                         \div 2
                         # bulk_insert_leaves_stores(last.before, last.indices)[j]
        /\ \A slot \in AncestorsOf(num_leaves(last.before), last.indices) :
               At(merkle_tree, slot)
                 = parent_output(chaining_value(At(merkle_tree, 2 * slot)),
                                 chaining_value(At(merkle_tree, 2 * slot + 1)), IV, 0)
        /\ \A slot \in 0..(num_leaves(last.before) - 1) :
               slot \notin AncestorsOf(num_leaves(last.before), last.indices)
                   => At(merkle_tree, slot) = At(last.before, slot)
        /\ Len(bulk_insert_leaves_stores(last.before, last.indices))
              <= Len(last.indices) * Len(InsertWalkStores(num_leaves(last.before)))

\* bulk_insert_leaves on the leaves 1, 2 and 3 of four computed the parents
\* 2, 3 and 1, where three insert_leaf calls compute six.
C21_Witness ==
    /\ last.op = "bulk_insert_leaves"
    /\ last.result = "Some"
    /\ last.indices = <<1, 2, 3>>
    /\ num_leaves(last.before) = 4
    /\ bulk_insert_leaves_stores(last.before, last.indices) = <<2, 3, 1>>
    /\ \A slot \in {1, 2, 3} : At(merkle_tree, slot) # At(last.before, slot)

(***************************************************************************)
(* Properties of the unbalanced tree, under SpecU                          *)
(***************************************************************************)

\* root().chaining_value()
UnbalancedRootChainingValue == chaining_value(Unbalanced_root(merkle_tree))

\* The streaming digest as eight little-endian words.
DigestWords(input) == words_from_little_endian_bytes(StreamingHash(input))

\* The indices of a sequence.
Indices(indices) == {indices[i] : i \in DOMAIN indices}

\* C6: bulk_insert_leaves of the unbalanced tree with a sequence that is
\* not strictly ascending returns None, and the storage, its length and
\* actual_leaves are as before the call.
C6_UnsortedUnbalancedBulkInsertChangesNothing ==
    (last.op = "bulk_insert_leaves" /\ ~StrictlyAscending(last.indices))
        => (/\ last.result = "None"
            /\ Len(merkle_tree.tree) = Len(last.before.tree)
            /\ merkle_tree.actual_leaves = last.before.actual_leaves
            /\ merkle_tree.tree = last.before.tree)

C6_Witness ==
    /\ last.op = "bulk_insert_leaves"
    /\ ~StrictlyAscending(last.indices)
    /\ \E i \in Indices(last.indices) :
           /\ i >= last.before.actual_leaves
           /\ 2 * next_power_of_two(i + 1) > Len(last.before.tree)
    /\ last.result = "None"
    /\ merkle_tree = last.before

\* C8: the unbalanced tree built from the chunk Outputs of an input of
\* n >= 1 chunks has the streaming digest of the input as its root chaining
\* value, and n leaves.
C8_UnbalancedRootOfNewTreeIsDigest ==
    last.op = "new_from_leaves"
        => (/\ UnbalancedRootChainingValue = DigestWords(input_bytes)
            /\ Unbalanced_num_leaves(merkle_tree) = NumChunks)

C8_Witness ==
    /\ last.op = "new_from_leaves"
    /\ NumChunks = 3
    /\ Len(input_bytes) % CHUNK_LEN # 0
    /\ UnbalancedRootChainingValue = DigestWords(input_bytes)
    /\ Unbalanced_num_leaves(merkle_tree) = 3

\* The tree before the last call is the one built from the chunks of the
\* input that precede chunk n.
BuiltFromChunksBefore(n) ==
    last.before = Unbalanced_new_from_leaves(
                      process_input_to_chunks(SubSeq(input_bytes, 1, n * CHUNK_LEN)))

\* C9: insert_leaf(n, out) on the unbalanced tree built from the n chunks
\* of an input, with out the Output of an appended chunk n, returns with the
\* streaming digest of the extended input as the root chaining value.
C9_AppendedLeafGivesDigestOfExtendedInput ==
    (/\ last.op = "insert_leaf"
     /\ last.indices[1] = last.before.actual_leaves
     /\ BuiltFromChunksBefore(last.indices[1]))
        => (/\ last.result = "unit"
            /\ UnbalancedRootChainingValue = DigestWords(input_bytes))

\* C10: when insert_leaf or bulk_insert_leaves of the unbalanced tree has
\* grown the storage, every leaf j below the old actual_leaves that the call
\* was not given is held at slot leaf_start + j, with leaf_start half the
\* new storage length.
C10_GrowthKeepsLeavesAtLeafSlots ==
    (/\ last.op \in {"insert_leaf", "bulk_insert_leaves"}
     /\ last.result \in {"unit", "Some"}
     /\ Len(merkle_tree.tree) > Len(last.before.tree))
        => \A j \in (0..last.before.actual_leaves - 1) \ Indices(last.indices) :
               At(merkle_tree.tree, (Len(merkle_tree.tree) \div 2) + j)
                   = At(last.before.tree, (Len(last.before.tree) \div 2) + j)

RECURSIVE LiveInternalSlots(_, _)
\* The internal slots above a level of m live nodes at slot s.
LiveInternalSlots(s, m) ==
    IF s <= 1 THEN {}
    ELSE {(s \div 2) + i : i \in 0..(((m + 1) \div 2) - 1)}
             \cup LiveInternalSlots(s \div 2, (m + 1) \div 2)

\* C30: for an unbalanced tree built from n >= 1 leaves and an index i < n,
\* insert_leaf(i, out) completes and leaves the tree with the same root and
\* the same live internal nodes as new_from_leaves on the leaf sequence with
\* entry i replaced by out, trees of capacity 4 or more included.
C30_ReplacedLeafGivesRebuiltTree ==
    (/\ last.op = "insert_leaf"
     /\ last.indices[1] < last.before.actual_leaves
     /\ last.before = Unbalanced_new_from_leaves(
                          process_input_to_chunks(
                              FlipAt(input_bytes, MutPosition(last.indices[1])))))
        => (/\ last.result = "unit"
            /\ Unbalanced_root(merkle_tree)
                  = Unbalanced_root(Unbalanced_new_from_leaves(
                                        process_input_to_chunks(input_bytes)))
            /\ \A slot \in LiveInternalSlots(Len(merkle_tree.tree) \div 2,
                                              merkle_tree.actual_leaves) :
                   At(merkle_tree.tree, slot)
                     = At(Unbalanced_new_from_leaves(
                              process_input_to_chunks(input_bytes)).tree, slot))

\* root().root_output_bytes over 32 bytes, of the unbalanced tree.
UnbalancedRootBytes == root_output_bytes(Unbalanced_root(merkle_tree), OUT_LEN)

C13_UpdatesEqualOneUpdateOfConcatenation ==
    /\ hasher = Blake3Hasher_update(Blake3Hasher_new, input_bytes)
    /\ last.op = "finalize"
           => last.result = Blake3Hasher_finalize(
                                Blake3Hasher_update(Blake3Hasher_new, input_bytes),
                                OUT_LEN)
    /\ (last.op = "update" /\ last.indices[Len(last.indices)] = 0)
           => hasher = last.before

C13_Witness ==
    /\ last.op = "finalize"
    /\ last.indices = <<BLOCK_LEN + 1, CHUNK_LEN - 1, BLOCK_LEN - 1>>
    /\ hasher = Blake3Hasher_update(Blake3Hasher_new, input_bytes)
    /\ last.result = StreamingHash(input_bytes)

\* The BLAKE3 digest of the empty input.
EmptyInputDigest ==
    <<175, 19, 73, 185, 245, 249, 161, 166, 160, 64, 77, 234, 54, 220,
       201, 73, 155, 203, 37, 201, 173, 193, 18, 183, 204, 154, 147,
       202, 228, 31, 50, 98>>

\* C14: a new hasher finalised to 32 bytes with no input yields the BLAKE3
\* digest of the empty input.
C14_EmptyInputDigest ==
    (last.op = "finalize" /\ input_bytes = <<>>) => last.result = EmptyInputDigest

C14_Witness ==
    /\ last.op = "finalize"
    /\ last.indices = <<>>
    /\ input_bytes = <<>>
    /\ last.result = EmptyInputDigest

(***************************************************************************)
(* Properties of construction and reads, under SpecR                       *)
(***************************************************************************)

\* r is slot with the ROOT flag added and every other field copied.
CopyWithRoot(r, slot) ==
    /\ r.input_chaining_value = slot.input_chaining_value
    /\ r.block_words = slot.block_words
    /\ r.counter = slot.counter
    /\ r.block_len = slot.block_len
    /\ r.flags = IF (slot.flags \div ROOT) % 2 = 1 THEN slot.flags
                 ELSE slot.flags + ROOT

\* C12: root() on either tree returns a copy of slot 1 with the ROOT flag
\* added and modifies no slot of the tree; a second call with no mutation in
\* between returns the identical Output and identical root_output_bytes.
C12_RootCopiesSlotOneAndModifiesNothing ==
    /\ last.op = "root" =>
           /\ merkle_tree = last.before
           /\ CopyWithRoot(last.result, merkle_tree.balanced[2])
           /\ root(merkle_tree.balanced) = last.result
           /\ root_output_bytes(root(merkle_tree.balanced), OUT_LEN)
                  = root_output_bytes(last.result, OUT_LEN)
    /\ last.op = "unbalanced_root" =>
           /\ merkle_tree = last.before
           /\ CopyWithRoot(last.result, merkle_tree.unbalanced.tree[2])
           /\ Unbalanced_root(merkle_tree.unbalanced) = last.result
           /\ root_output_bytes(Unbalanced_root(merkle_tree.unbalanced), OUT_LEN)
                  = root_output_bytes(last.result, OUT_LEN)

\* root() was called on an unbalanced tree whose slot 1 is a parent Output.
C12_Witness ==
    /\ last.op = "unbalanced_root"
    /\ Len(last.before.unbalanced.tree) > 2
    /\ last.before.unbalanced.tree[2].flags = PARENT
    /\ last.result.flags = PARENT + ROOT
    /\ merkle_tree = last.before

\* The bytes of output block j within out, a slice of out_len bytes, are the
\* leading bytes of words, each word little-endian.
BlockIsWords(out, out_len, j, words) ==
    \A i \in 1..min(2 * OUT_LEN, out_len - 2 * OUT_LEN * j) :
        out[2 * OUT_LEN * j + i]
            = to_le_bytes(words[((i - 1) \div 4) + 1])[((i - 1) % 4) + 1]

\* C15: root_output_bytes is prefix-consistent: the n bytes written for a
\* buffer of length n are the first n bytes written for any longer buffer;
\* output block j is the compression with counter j; the Output's own counter
\* field is not used and the Output is not changed.
C15_RootOutputBytesPrefixConsistent ==
    last.op = "root_output_bytes" =>
        /\ Len(last.result) = last.indices[2]
        /\ \A m \in OutLens :
               last.indices[2] <= m =>
                   last.result = SubSeq(root_output_bytes(last.hashes[1], m),
                                        1, last.indices[2])
        /\ \A j \in 0..(((last.indices[2] + 2 * OUT_LEN - 1) \div (2 * OUT_LEN)) - 1) :
               BlockIsWords(last.result, last.indices[2], j,
                            compress(last.hashes[1].input_chaining_value,
                                     last.hashes[1].block_words, j,
                                     last.hashes[1].block_len,
                                     BitOr(last.hashes[1].flags, ROOT)))
        /\ root_output_bytes([last.hashes[1] EXCEPT !.counter = last.hashes[1].counter + 1],
                             last.indices[2]) = last.result
        /\ merkle_tree = last.before
        /\ At(merkle_tree.balanced, last.indices[1]) = last.hashes[1]

\* 65 bytes, two output blocks, were written from the Output of a chunk whose
\* counter is not 0.
C15_Witness ==
    /\ last.op = "root_output_bytes"
    /\ last.indices[2] = 2 * OUT_LEN + 1
    /\ last.hashes[1].counter # 0
    /\ Len(last.result) = 2 * OUT_LEN + 1
    /\ last.result = SubSeq(root_output_bytes(last.hashes[1], 4 * OUT_LEN + 1),
                            1, 2 * OUT_LEN + 1)

\* The sentinel Output, field by field.
IsSentinel(output) ==
    /\ output.input_chaining_value = IV
    /\ Len(output.block_words) = 16
    /\ \A i \in 1..16 : output.block_words[i] = <<0, 0>>
    /\ output.counter = 0
    /\ output.block_len = 64
    /\ output.flags = 0

\* C16: new_empty(n) fails its assertion for every n that is not a power of
\* two, 0 included; for a power of two n it returns a tree of 2n slots that
\* all hold the sentinel Output, with num_leaves() = n and
\* get_tree_length() = 2n - 1.
C16_NewEmptyAssertsPowerOfTwo ==
    last.op = "new_empty" =>
        /\ last.result = "panic" <=> ~(\E k \in 0..last.indices[1] :
                                          Pow2(k) = last.indices[1])
        /\ last.result = "panic" => merkle_tree = last.before
        /\ last.result # "panic" =>
               /\ Len(merkle_tree.balanced) = 2 * last.indices[1]
               /\ \A i \in 0..(2 * last.indices[1] - 1) :
                      IsSentinel(At(merkle_tree.balanced, i))
               /\ num_leaves(merkle_tree.balanced) = last.indices[1]
               /\ get_tree_length(merkle_tree.balanced) = 2 * last.indices[1] - 1

\* new_empty(4) returned a tree of 8 slots.
C16_Witness ==
    /\ last.op = "new_empty"
    /\ last.indices = <<4>>
    /\ last.result = "unit"
    /\ Len(merkle_tree.balanced) = 8
    /\ num_leaves(merkle_tree.balanced) = 4

\* C18: for every leaf count n >= 2, powers of two or not, the pairing loop
\* of BinaryMerkleTree::new_from_leaves ends with the root at slot 1: slot 1
\* holds a parent Output, computed from its two children, and not the
\* sentinel.
C18_PairingLoopEndsAtSlotOne ==
    (last.op = "new_from_leaves" /\ Len(last.hashes) >= 2) =>
        /\ ~IsSentinel(At(merkle_tree.balanced, 1))
        /\ At(merkle_tree.balanced, 1)
              = parent_output(chaining_value(At(merkle_tree.balanced, 2)),
                              chaining_value(At(merkle_tree.balanced, 3)), IV, 0)

\* C19: after new_from_leaves(L) with capacity C = next_power_of_two(|L|),
\* for every i < |L| the slot C + i, the slot insert_leaf(i, .) writes, holds
\* L[i], for every leaf count.
C19_LeavesAtSlotsInsertLeafWrites ==
    last.op = "new_from_leaves" =>
        \A i \in 0..(Len(last.hashes) - 1) :
            At(merkle_tree.balanced, next_power_of_two(Len(last.hashes)) + i)
                = last.hashes[i + 1]

(***************************************************************************)
(* Properties of both trees, under SpecB                                   *)
(***************************************************************************)

\* The ROOT bit of the flags of an Output.
HasRoot(output) == (output.flags \div ROOT) % 2 = 1

\* C22: no slot stored in the balanced or in the unbalanced tree has the
\* ROOT flag set after any sequence of construction, insert_leaf,
\* bulk_insert_leaves and root() calls with leaf Outputs of
\* ChunkState::output under base flags 0; the copies root() returns have it.
C22_RootFlagOnlyOnReturnedCopy ==
    /\ \A slot \in 0..(Len(merkle_tree.balanced) - 1) :
           ~HasRoot(At(merkle_tree.balanced, slot))
    /\ \A slot \in 0..(Len(merkle_tree.unbalanced.tree) - 1) :
           ~HasRoot(At(merkle_tree.unbalanced.tree, slot))
    /\ last.op = "root" => \A k \in 1..2 : HasRoot(last.hashes[k])

\* root() was read from both trees after two chunks were mutated.
C22_Witness ==
    /\ last.op = "root"
    /\ NumChunks >= 3
    /\ Cardinality(MutatedChunks) >= 2
    /\ HasRoot(last.hashes[1])
    /\ HasRoot(last.hashes[2])
    /\ ~HasRoot(At(merkle_tree.balanced, 1))
    /\ ~HasRoot(At(merkle_tree.unbalanced.tree, 1))

(***************************************************************************)
(* Properties of the chunk state, under SpecH                              *)
(***************************************************************************)

\* len() = 64 * blocks_compressed + block_len <= 1024, block_len in 0..64,
\* blocks_compressed in 0..15, and the block buffer is zero from block_len on.
WellFormedChunkState(self) ==
    /\ self.block_len \in 0..64
    /\ self.blocks_compressed \in 0..15
    /\ ChunkState_len(self) = 64 * self.blocks_compressed + self.block_len
    /\ ChunkState_len(self) <= 1024
    /\ Len(self.block) = 64
    /\ \A i \in (self.block_len + 1)..64 : self.block[i] = 0

\* C23: in every state reached by Blake3Hasher::update or by
\* process_input_to_chunks each ChunkState has
\* len() = 64 * blocks_compressed + block_len <= 1024 with block_len in 0..64
\* and blocks_compressed in 0..15, and every byte of the block buffer at a
\* position >= block_len is zero.
C23_ChunkStateWellFormed ==
    /\ WellFormedChunkState(hasher.chunk_state)
    /\ last.op = "update" =>
           \A k \in 1..Len(ProcessLoopStates(ChunkState_new(IV, 0, 0), input_bytes)) :
               WellFormedChunkState(
                   ProcessLoopStates(ChunkState_new(IV, 0, 0), input_bytes)[k])

\* The hasher holds a second chunk of 65 bytes: one block compressed and one
\* byte in a buffer that is zero behind it.
C23_Witness ==
    /\ last.op = "update"
    /\ Len(input_bytes) = CHUNK_LEN + BLOCK_LEN + 1
    /\ hasher.chunk_state.chunk_counter = 1
    /\ hasher.chunk_state.blocks_compressed = 1
    /\ hasher.chunk_state.block_len = 1
    /\ hasher.chunk_state.block[2] = 0
    /\ Len(ProcessLoopStates(ChunkState_new(IV, 0, 0), input_bytes)) = 2

\* The bytes the current chunk has absorbed out of a total of T > 0.
BytesInChunk(T) == ((T - 1) % 1024) + 1

RECURSIVE CompressBlocks(_, _, _, _, _)
\* The chaining value after the blocks j .. blocks - 1 of the bytes of a
\* chunk are compressed from cv: block 0 with CHUNK_START, the others with
\* no flag.
CompressBlocks(cv, bytes, counter, j, blocks) ==
    IF j >= blocks \/ cv = <<>> THEN cv
    ELSE CompressBlocks(
             first_8_words(compress(cv,
                                    words_from_little_endian_bytes(
                                        SubSeq(bytes, 64 * j + 1, 64 * j + 64)),
                                    counter, 64,
                                    IF j = 0 THEN CHUNK_START ELSE 0)),
             bytes, counter, j + 1, blocks)

\* The chunk state holds the last n of the T bytes of the input: all blocks
\* but the last compressed, the last one in the buffer.
HoldsLastBytes(self, input, T, n) ==
    /\ self.blocks_compressed = ((n + 63) \div 64) - 1
    /\ self.block_len = n - 64 * (((n + 63) \div 64) - 1)
    /\ self.chaining_value
          = CompressBlocks(IV, SubSeq(input, T - n + 1, T), (T - 1) \div 1024,
                           0, ((n + 63) \div 64) - 1)
    /\ SubSeq(self.block, 1, self.block_len)
          = SubSeq(input, T - self.block_len + 1, T)

\* C24: ChunkState::update compresses a full block only when further bytes
\* arrive: after n bytes (1 <= n <= 1024) in any split across update calls,
\* blocks_compressed = ceil(n/64) - 1 and block_len = n - 64 *
\* blocks_compressed; the first block compression of a chunk carries
\* CHUNK_START, the others no flag, and none CHUNK_END.
C24_FullBlockCompressedOnlyWhenMoreArrives ==
    Len(input_bytes) > 0 =>
        HoldsLastBytes(hasher.chunk_state, input_bytes, Len(input_bytes),
                       BytesInChunk(Len(input_bytes)))

\* 129 bytes absorbed as 1, 63 and 65: two blocks compressed, one byte held.
C24_Witness ==
    /\ last.op = "update"
    /\ last.indices = <<1, BLOCK_LEN - 1, BLOCK_LEN + 1>>
    /\ hasher.chunk_state.blocks_compressed = 2
    /\ hasher.chunk_state.block_len = 1

\* C25: ChunkState::output() does not change the ChunkState; the Output has
\* counter = chunk_counter, block_len = the current block_len,
\* input_chaining_value = the current chaining value, and flags = base flags
\* | CHUNK_END, plus CHUNK_START exactly when at most 64 bytes have been
\* absorbed.
C25_OutputObservesChunkState ==
    last.op = "output" =>
        /\ hasher = last.before
        /\ last.hashes[1].counter = hasher.chunk_state.chunk_counter
        /\ last.hashes[1].counter = IF input_bytes = <<>> THEN 0
                                    ELSE (Len(input_bytes) - 1) \div 1024
        /\ last.hashes[1].block_len = hasher.chunk_state.block_len
        /\ last.hashes[1].input_chaining_value = hasher.chunk_state.chaining_value
        /\ last.hashes[1].flags
              = IF input_bytes = <<>> \/ BytesInChunk(Len(input_bytes)) <= 64
                THEN CHUNK_START + CHUNK_END
                ELSE CHUNK_END

\* output() of the second chunk with more than one block absorbed.
C25_Witness ==
    /\ last.op = "output"
    /\ hasher.chunk_state.chunk_counter = 1
    /\ hasher.chunk_state.blocks_compressed >= 1
    /\ last.hashes[1].counter = 1
    /\ last.hashes[1].flags = CHUNK_END
    /\ hasher = last.before

\* C27: after update calls of total length T > 0 the current chunk of the
\* hasher holds T - 1024 * (ceil(T/1024) - 1) bytes, between 1 and 1024, and
\* chunk_counter = ceil(T/1024) - 1: a full chunk is merged into the stack
\* only when more input arrives.
C27_LastChunkStaysInChunkState ==
    Len(input_bytes) > 0 =>
        /\ ChunkState_len(hasher.chunk_state)
              = Len(input_bytes) - 1024 * (((Len(input_bytes) + 1023) \div 1024) - 1)
        /\ ChunkState_len(hasher.chunk_state) \in 1..1024
        /\ hasher.chunk_state.chunk_counter
              = ((Len(input_bytes) + 1023) \div 1024) - 1
        /\ hasher.cv_stack_len <= hasher.chunk_state.chunk_counter

\* Two whole chunks were fed: the first is on the stack and the second,
\* complete, is still the current chunk.
C27_Witness ==
    /\ last.op = "update"
    /\ Len(input_bytes) = 2 * CHUNK_LEN
    /\ hasher.chunk_state.chunk_counter = 1
    /\ ChunkState_len(hasher.chunk_state) = CHUNK_LEN
    /\ hasher.cv_stack_len = 1

(***************************************************************************)
(* Properties of the stack of the hasher, under SpecK                      *)
(***************************************************************************)

RECURSIVE PopCount(_)
\* The number of 1-bits of n.
PopCount(n) == IF n = 0 THEN 0 ELSE (n % 2) + PopCount(n \div 2)

\* C26: after any sequence of update calls cv_stack_len is the number of
\* 1-bits of chunk_state.chunk_counter, the number of completed chunks
\* merged so far; pop_stack is never called on an empty stack and push_stack
\* never on a full one.
C26_StackLenIsPopCountOfChunkCounter ==
    /\ hasher.cv_stack_len = PopCount(hasher.chunk_state.chunk_counter)
    /\ hasher.chunk_state.chunk_counter
          = IF input_bytes = <<>> THEN 0 ELSE (Len(input_bytes) - 1) \div 1024
    /\ last.op = "update" =>
           \A k \in 1..Len(Blake3Hasher_update_stack_calls(
                                last.before, last.indices[Len(last.indices)])) :
               IF Blake3Hasher_update_stack_calls(
                      last.before, last.indices[Len(last.indices)])[k][1] = "pop_stack"
               THEN Blake3Hasher_update_stack_calls(
                        last.before, last.indices[Len(last.indices)])[k][2] > 0
               ELSE Blake3Hasher_update_stack_calls(
                        last.before, last.indices[Len(last.indices)])[k][2] < CV_STACK_SIZE

\* The fourth chunk was merged: two pops and a push took the stack from two
\* entries to one.
C26_Witness ==
    /\ last.op = "update"
    /\ last.before.chunk_state.chunk_counter = 3
    /\ last.before.cv_stack_len = 2
    /\ hasher.chunk_state.chunk_counter = 4
    /\ hasher.cv_stack_len = 1
    /\ Blake3Hasher_update_stack_calls(last.before, last.indices[Len(last.indices)])
          = <<<<"pop_stack", 2>>, <<"pop_stack", 1>>, <<"push_stack", 0>>>>

\* C28: for an input of N bytes process_input_to_chunks returns ceil(N/1024)
\* Outputs, none for N = 0, and its k-th Output is that of
\* ChunkState::new(IV, k, 0) updated with the bytes [1024k, min(1024(k+1), N)),
\* so its counter is k.
C28_OneOutputPerChunk ==
    last.op = "process_input_to_chunks" =>
        /\ Len(last.hashes) = (Len(input_bytes) + 1023) \div 1024
        /\ \A k \in 0..(Len(last.hashes) - 1) :
               /\ last.hashes[k + 1]
                     = ChunkState_output(
                           ChunkState_update(
                               ChunkState_new(IV, k, 0),
                               SubSeq(input_bytes, 1024 * k + 1,
                                      min(1024 * (k + 1), Len(input_bytes)))))
               /\ last.hashes[k + 1].counter = k

\* 2049 bytes gave three Outputs, the third of a chunk of one byte.
C28_Witness ==
    /\ last.op = "process_input_to_chunks"
    /\ Len(input_bytes) = 2 * CHUNK_LEN + 1
    /\ Len(last.hashes) = 3
    /\ last.hashes[3].counter = 2
    /\ last.hashes[3].block_len = 1

(***************************************************************************)
(* Properties of the construction of the unbalanced tree, under SpecR      *)
(***************************************************************************)

RECURSIVE LevelsArePairedOrPromoted(_, _, _)
\* From the level of m live nodes at slot s upwards: parent slot s/2 + i is
\* the parent Output of the slots s + 2i and s + 2i + 1 when 2i + 1 < m, and
\* the slot s + 2i itself when 2i + 1 >= m.
LevelsArePairedOrPromoted(tree, s, m) ==
    IF s <= 1 THEN TRUE
    ELSE /\ \A i \in 0..(((m + 1) \div 2) - 1) :
                At(tree, (s \div 2) + i)
                  = IF 2 * i + 1 < m
                    THEN parent_output(chaining_value(At(tree, s + 2 * i)),
                                       chaining_value(At(tree, s + 2 * i + 1)),
                                       IV, 0)
                    ELSE At(tree, s + 2 * i)
         /\ LevelsArePairedOrPromoted(tree, s \div 2, (m + 1) \div 2)

\* C29: after UnbalancedMerkleTree::new_from_leaves with n >= 2 leaves, at
\* every level with m live nodes from slot s, parent slot s/2 + i holds the
\* parent Output of its two children when 2i + 1 < m and an exact copy of
\* slot s + 2i when 2i + 1 >= m; with n = 1 slot 1 holds the single leaf.
C29_UnbalancedLevelsPairedOrPromoted ==
    last.op = "new_from_leaves" =>
        /\ \A i \in 0..(Len(last.hashes) - 1) :
               At(merkle_tree.unbalanced.tree,
                  (Len(merkle_tree.unbalanced.tree) \div 2) + i) = last.hashes[i + 1]
        /\ Len(last.hashes) >= 2 =>
               LevelsArePairedOrPromoted(merkle_tree.unbalanced.tree,
                                         Len(merkle_tree.unbalanced.tree) \div 2,
                                         Len(last.hashes))
        /\ Len(last.hashes) = 1 =>
               At(merkle_tree.unbalanced.tree, 1) = last.hashes[1]

\* Three leaves: slot 3 is the promoted third leaf, slot 2 and slot 1 are
\* parents.
C29_Witness ==
    /\ last.op = "new_from_leaves"
    /\ Len(last.hashes) = 3
    /\ At(merkle_tree.unbalanced.tree, 3) = last.hashes[3]
    /\ At(merkle_tree.unbalanced.tree, 3).counter = 2
    /\ At(merkle_tree.unbalanced.tree, 2).flags = PARENT
    /\ At(merkle_tree.unbalanced.tree, 1).flags = PARENT

(***************************************************************************)
(* Bulk and single insertion of the unbalanced tree compared, under SpecU  *)
(***************************************************************************)

RECURSIVE Unbalanced_InsertEach(_, _, _, _)
\* insert_leaf(indices[j], hashes[j]) once per entry, in order; a panic ends
\* the sequence.
Unbalanced_InsertEach(self, indices, hashes, checked) ==
    IF indices = <<>> THEN [self |-> self, result |-> "unit"]
    ELSE LET call == Unbalanced_insert_leaf(self, Head(indices), Head(hashes), checked)
         IN  IF call.result = "panic" THEN call
             ELSE Unbalanced_InsertEach(call.self, Tail(indices), Tail(hashes), checked)

\* C31: bulk_insert_leaves of the unbalanced tree with a non-empty strictly
\* ascending sequence returns Some(()) and leaves the node array and
\* actual_leaves that insert_leaf once per entry, in ascending order, leaves.
C31_UnbalancedBulkEqualsSequentialInserts ==
    (/\ last.op = "bulk_insert_leaves"
     /\ last.indices # <<>>
     /\ StrictlyAscending(last.indices))
        => (/\ last.result = "Some"
            /\ merkle_tree = Unbalanced_InsertEach(last.before, last.indices,
                                                   last.hashes, overflow_checks).self)

\* The last call of the unbalanced tree evaluates a usize subtraction whose
\* right operand is the larger: the call made with overflow checks panics.
LastCallUnderflows ==
    \/ /\ last.op = "insert_leaf"
       /\ Unbalanced_insert_leaf(last.before, last.indices[1], last.hashes[1],
                                 TRUE).result = "panic"
    \/ /\ last.op = "bulk_insert_leaves"
       /\ Unbalanced_bulk_insert_leaves(last.before, last.indices, last.hashes,
                                        TRUE).result = "panic"

\* C32: no usize subtraction underflows in insert_leaf and bulk_insert_leaves
\* of the unbalanced tree: right_index - leaf_start is evaluated only with
\* right_index >= leaf_start, and parent_index - leaf_start only with
\* parent_index >= leaf_start, for every capacity and in-range leaf index.
C32_NoUsizeSubtractionUnderflows ==
    last.op \in {"insert_leaf", "bulk_insert_leaves"} => ~LastCallUnderflows

(***************************************************************************)
(* The leaf count and the storage length of the unbalanced tree, under     *)
(* SpecU                                                                   *)
(***************************************************************************)

\* The largest leaf count reached by the last call: the count before it, or
\* i + 1 for the largest index it inserted.
LargestLeafCount ==
    IF last.op = "new_from_leaves" THEN NumChunks
    ELSE IF last.result = "None" \/ last.indices = <<>>
    THEN last.before.actual_leaves
    ELSE IF Max(last.indices) + 1 > last.before.actual_leaves
    THEN Max(last.indices) + 1
    ELSE last.before.actual_leaves

\* C33: after construction and after every insert_leaf or bulk_insert_leaves
\* of the unbalanced tree, num_leaves() is the largest leaf count reached so
\* far, the storage length is 2 * next_power_of_two(num_leaves()), and
\* num_leaves() has not decreased.
C33_NumLeavesIsLargestCountReached ==
    /\ Unbalanced_num_leaves(merkle_tree) = LargestLeafCount
    /\ Len(merkle_tree.tree) = 2 * next_power_of_two(Unbalanced_num_leaves(merkle_tree))
    /\ last.op # "new_from_leaves"
           => Unbalanced_num_leaves(merkle_tree) >= Unbalanced_num_leaves(last.before)
    /\ last.result \in {"unit", "Some"} => Unbalanced_num_leaves(merkle_tree) = NumChunks

C33_Witness ==
    /\ last.op = "insert_leaf"
    /\ last.result = "unit"
    /\ last.indices[1] = Unbalanced_num_leaves(last.before)
    /\ Unbalanced_num_leaves(merkle_tree) = last.indices[1] + 1
    /\ Len(merkle_tree.tree) = 2 * Len(last.before.tree)

(***************************************************************************)
(* bulk_insert_leaves of the balanced tree with no index, under Spec       *)
(***************************************************************************)

\* UnbalancedMerkleTree::bulk_insert_leaves with no index, on the unbalanced
\* tree of the same input.
UnbalancedEmptyBulkCall ==
    Unbalanced_bulk_insert_leaves(
        Unbalanced_new_from_leaves(process_input_to_chunks(input_bytes)),
        <<>>, <<>>, overflow_checks)

\* C34: BinaryMerkleTree::bulk_insert_leaves with an empty index sequence
\* returns Some(()) and leaves the tree unchanged, as
\* UnbalancedMerkleTree::bulk_insert_leaves does; the sortedness check
\* evaluates len - 1 without underflow.
C34_EmptyBulkInsertSucceeds ==
    (last.op = "bulk_insert_leaves" /\ last.indices = <<>>)
        => (/\ last.result = "Some"
            /\ last.result = UnbalancedEmptyBulkCall.result
            /\ merkle_tree = last.before)

(***************************************************************************)
(* bulk_insert_leaves of the balanced tree iteration by iteration: the     *)
(* call in progress is in `last`, with the local update_queue, and         *)
(* merkle_tree is the tree as the loop has left it so far.  A call that    *)
(* has started goes on until it returns.                                   *)
(***************************************************************************)

\* bulk_insert_leaves up to the loop: the indices are offset and checked,
\* the leaves stored and update_queue made from the offset indices.
BulkInsertLeavesEnter(tree, leaf_indices_iter, leaf_hashes_iter) ==
    LET leaf_offset == num_leaves(tree)
        leaf_indices == Array([i \in 1..Len(leaf_indices_iter) |->
                                  leaf_indices_iter[i] + leaf_offset],
                              Len(leaf_indices_iter))
    IN  IF is_sorted_panics(leaf_indices)
        THEN [tree |-> tree, update_queue |-> <<>>, result |-> "panic"]
        ELSE IF ~is_sorted(leaf_indices)
        THEN [tree |-> tree, update_queue |-> <<>>, result |-> "None"]
        ELSE [tree |-> WriteLeaves(tree, leaf_indices, leaf_hashes_iter),
              update_queue |-> leaf_indices, result |-> "running"]

\* One iteration of the while-let loop of bulk_insert_leaves: the loop ends
\* when pop_front gives None or the index 1, and Some(()) is returned.
UpdateAncestorsIteration(tree, update_queue) ==
    IF update_queue = <<>>
    THEN [tree |-> tree, update_queue |-> <<>>, result |-> "Some"]
    ELSE LET current_index == Head(update_queue)
             popped == Tail(update_queue)
             sibling_index == get_sibling_index(current_index)
             rest == IF popped # <<>> /\ Head(popped) = sibling_index
                     THEN Tail(popped) ELSE popped
             pair == get_left_and_right_node_indices_from_index(current_index)
             parent_index == get_parent_index(current_index)
         IN  IF current_index = 1
             THEN [tree |-> tree, update_queue |-> popped, result |-> "Some"]
             ELSE [tree |-> Store(tree, parent_index, ParentOfPair(tree, pair)),
                   update_queue |-> Append(rest, parent_index),
                   result |-> "running"]

QueueInit ==
    /\ input_bytes \in {WholeInput(n) : n \in BalancedChunkCounts}
    /\ merkle_tree = new_from_leaves(process_input_to_chunks(input_bytes))
    /\ overflow_checks = TRUE
    /\ hasher = Blake3Hasher_new
    /\ last = [op |-> "new_from_leaves", indices |-> <<>>, hashes |-> <<>>,
               before |-> <<>>, result |-> "unit", update_queue |-> <<>>]

\* The caller enters bulk_insert_leaves; it keeps the mutated buffer unless
\* the call is rejected.
BulkInsertLeavesEnterCall(chunk_indices, chunk_outputs, call) ==
    /\ input_bytes' = IF call.result = "running"
                      THEN FlipChunks(input_bytes, chunk_indices)
                      ELSE input_bytes
    /\ merkle_tree' = call.tree
    /\ last' = [op |-> "bulk_insert_leaves", indices |-> chunk_indices,
                hashes |-> chunk_outputs, before |-> merkle_tree,
                result |-> call.result, update_queue |-> call.update_queue]
    /\ UNCHANGED <<overflow_checks, hasher>>

\* One byte of each chunk of an index sequence is flipped and
\* bulk_insert_leaves entered with the Outputs of the chunks.
BulkInsertLeavesStart ==
    /\ last.result \notin {"running", "panic"}
    /\ \E chunk_indices \in BulkSeqs(NumChunks) :
           BulkInsertLeavesEnterCall(
               chunk_indices, mutated_chunk_outputs(input_bytes, chunk_indices),
               BulkInsertLeavesEnter(merkle_tree, chunk_indices,
                                     mutated_chunk_outputs(input_bytes, chunk_indices)))

\* The call in progress after one more iteration of its loop.
BulkInsertLeavesIterationCall(call) ==
    /\ merkle_tree' = call.tree
    /\ last' = [last EXCEPT !.result = call.result,
                            !.update_queue = call.update_queue]
    /\ UNCHANGED <<input_bytes, overflow_checks, hasher>>

\* The loop of the call in progress makes one iteration.
BulkInsertLeavesIteration ==
    /\ last.result = "running"
    /\ BulkInsertLeavesIterationCall(
           UpdateAncestorsIteration(merkle_tree, last.update_queue))

QueueNext == BulkInsertLeavesStart \/ BulkInsertLeavesIteration

\* The thread that called bulk_insert_leaves keeps running: weak fairness of
\* BulkInsertLeavesIteration, which is enabled exactly while a call is in
\* progress.
LoopKeepsRunning ==
    \/ []<>(last.result # "running")
    \/ []<><<BulkInsertLeavesIteration>>_vars

SpecQ == QueueInit /\ [][QueueNext]_vars /\ LoopKeepsRunning

(***************************************************************************)
(* The update queue of bulk_insert_leaves, under SpecQ                     *)
(***************************************************************************)

RECURSIVE Level(_)
\* The level of a slot: 0 for the root, one more for each step away from it.
Level(index) == IF index <= 1 THEN 0 ELSE 1 + Level(index \div 2)

\* Every entry of a deeper level precedes every entry of a shallower one,
\* and the entries of a level ascend.
OrderedLevelByLevel(update_queue) ==
    \A k \in 1..Len(update_queue) - 1 :
        \/ Level(update_queue[k]) > Level(update_queue[k + 1])
        \/ /\ Level(update_queue[k]) = Level(update_queue[k + 1])
           /\ update_queue[k] < update_queue[k + 1]

\* The loop of the call in progress ends with this iteration.
LoopEnds == last.result = "running" /\ last'.result = "Some"

\* C35: for a non-empty strictly ascending sequence of in-range leaf
\* indices the update-queue loop of BinaryMerkleTree::bulk_insert_leaves
\* terminates; the queue stays ordered level by level, and the loop stops
\* exactly when index 1 is dequeued, the queue being empty then.
C35_UpdateQueueLoopTerminates ==
    /\ [](last.result = "running"
             => (/\ last.update_queue # <<>>
                 /\ OrderedLevelByLevel(last.update_queue)))
    /\ [][last.result = "running"
             => (/\ LoopEnds <=> Head(last.update_queue) = 1
                 /\ LoopEnds => last'.update_queue = <<>>)]_vars
    /\ (last.result = "running") ~> (last.result = "Some")

\* A call with three leaves of a tree of four has returned.
C35_Witness ==
    /\ last.op = "bulk_insert_leaves"
    /\ Len(last.indices) = 3
    /\ StrictlyAscending(last.indices)
    /\ last.result = "Some"
    /\ last.update_queue = <<>>
    /\ merkle_tree = bulk_insert_leaves(last.before, last.indices, last.hashes).tree

(***************************************************************************)
(* The balanced tree filled leaf by leaf from new_empty: last.indices and  *)
(* last.hashes are the leaves inserted so far, in the order of the calls,  *)
(* and input_bytes the input whose chunks the inserted Outputs are of.     *)
(***************************************************************************)

EmptyInit ==
    /\ input_bytes \in {WholeInput(n) : n \in BalancedChunkCounts \ {0}}
    /\ merkle_tree = new_empty(NumChunks)
    /\ overflow_checks = TRUE
    /\ hasher = Blake3Hasher_new
    /\ last = [op |-> "new_empty", indices |-> <<>>, hashes |-> <<>>,
               before |-> <<>>, result |-> "unit"]

\* insert_leaf on the tree that is being filled.
FillLeafCall(input, leaf_index, leaf_output) ==
    /\ input_bytes' = input
    /\ merkle_tree' = insert_leaf(merkle_tree, leaf_index, leaf_output)
    /\ last' = [op |-> "insert_leaf", indices |-> Append(last.indices, leaf_index),
                hashes |-> Append(last.hashes, leaf_output),
                before |-> merkle_tree, result |-> "unit"]
    /\ UNCHANGED <<overflow_checks, hasher>>

\* The Output of a chunk that has not been inserted yet is inserted, the
\* chunk as it is or with its byte flipped.
FillLeaf ==
    \E leaf_index \in (0..NumChunks - 1) \ Indices(last.indices) :
        \E input \in {input_bytes, FlipAt(input_bytes, MutPosition(leaf_index))} :
            FillLeafCall(input, leaf_index, mutated_chunk_output(input, leaf_index))

SpecE == EmptyInit /\ [][FillLeaf]_vars

(***************************************************************************)
(* Properties of the tree filled from new_empty, under SpecE               *)
(***************************************************************************)

\* Every leaf index has been inserted.
Filled == Indices(last.indices) = 0..NumChunks - 1

\* C36: new_empty(C) followed by insert_leaf(i, L[i]) for every i in 0..C,
\* in any order, gives a node array that is in the slots 1..2C-1 the one of
\* new_from_leaves(L).
C36_FilledEmptyTreeIsTreeFromLeaves ==
    Filled
        => (/\ Len(merkle_tree) = 2 * NumChunks
            /\ \A slot \in 1..(2 * NumChunks - 1) :
                   At(merkle_tree, slot)
                       = At(new_from_leaves(process_input_to_chunks(input_bytes)), slot))

\* Four leaves, two of them of mutated chunks, inserted in an order that is
\* not ascending.
C36_Witness ==
    /\ Filled
    /\ NumChunks = 4
    /\ ~StrictlyAscending(last.indices)
    /\ last.indices[1] = 2
    /\ Cardinality(MutatedChunks) = 2
    /\ \A i \in 1..4 : At(merkle_tree, 4 + last.indices[i]) = last.hashes[i]
    /\ At(merkle_tree, 1) # empty_output

(***************************************************************************)
(* insert_leaf calls of the balanced tree in either order, under Spec      *)
(***************************************************************************)

\* insert_leaf(i, x) then insert_leaf(j, y) on the tree, for two leaves.
InsertBoth(tree, i, x, j, y) == insert_leaf(insert_leaf(tree, i, x), j, y)

\* C37: on a balanced tree insert_leaf calls on distinct leaf indices
\* commute, and insert_leaf(i, x) applied twice leaves the array that
\* applying it once leaves.
C37_InsertLeafCommutesAndIsIdempotent ==
    last.op = "insert_leaf"
        => (/\ merkle_tree = insert_leaf(last.before, last.indices[1], last.hashes[1])
            /\ insert_leaf(merkle_tree, last.indices[1], last.hashes[1]) = merkle_tree
            /\ \A j \in (0..NumChunks - 1) \ {last.indices[1]} :
                   InsertBoth(last.before, last.indices[1], last.hashes[1],
                              j, mutated_chunk_outputs(input_bytes, <<j>>)[1])
                     = InsertBoth(last.before,
                                  j, mutated_chunk_outputs(input_bytes, <<j>>)[1],
                                  last.indices[1], last.hashes[1]))

\* insert_leaf on a tree of four leaves, and a second leaf under the other
\* child of the root whose insertion changes the tree.
C37_Witness ==
    /\ last.op = "insert_leaf"
    /\ NumChunks = 4
    /\ merkle_tree # last.before
    /\ \E j \in 0..3 :
           /\ j \div 2 # last.indices[1] \div 2
           /\ InsertBoth(last.before, last.indices[1], last.hashes[1],
                         j, mutated_chunk_outputs(input_bytes, <<j>>)[1]) # merkle_tree
           /\ InsertBoth(last.before, last.indices[1], last.hashes[1],
                         j, mutated_chunk_outputs(input_bytes, <<j>>)[1])
                = InsertBoth(last.before,
                             j, mutated_chunk_outputs(input_bytes, <<j>>)[1],
                             last.indices[1], last.hashes[1])


=============================================================================
